---- MODULE Spec2Model ----
(***************************************************************************)
(* Verification model of grisera-core-mongo: the MongoDB data-access layer *)
(* of the GRISERA API.  Two views of the program are modelled:             *)
(*                                                                         *)
(*  - the hydration call graph: which nested service calls every           *)
(*    _add_related_documents hook makes, with which depth and source       *)
(*    (specification SpecTrav);                                            *)
(*  - the document store and the services that read and write it           *)
(*    (specification Spec and its relatives).                              *)
(***************************************************************************)
EXTENDS Integers, Sequences, FiniteSets, TLC

VARIABLES
    root,      \* the public read that started the current hydration chain
    caller,    \* the call that made the current call
    frame,     \* the current (innermost) call of the chain
    hops,      \* number of nested calls below the public read
    store,     \* dataset -> collection -> sequence of stored documents
    nextId,    \* next ObjectId the store / bson will hand out
    result,    \* outcome of the last service operation
    last,      \* the last service operation and its inputs
    requests   \* the requests running step by step: position and local copies

vars == <<root, caller, frame, hops, store, nextId, result, last, requests>>

travVars == <<root, caller, frame, hops>>
storeVars == <<store, nextId, result, last, requests>>

(***************************************************************************)
(* Collection names (mongo_service/collection_mapping.py, Collections).    *)
(***************************************************************************)
DATASET == "dataset"
ACTIVITY == "activities"
ACTIVITY_EXECUTION == "activity_executions"
APPEARANCE == "appearances"
ARRANGEMENT == "arrangements"
CHANNEL == "channels"
EXPERIMENT == "experiments"
LIFE_ACTIVITY == "life_activities"
MEASURE == "measures"
MEASURE_NAME == "measure_names"
MODALITY == "modalities"
OBSERVABLE_INFORMATION == "observable_informations"
PARTICIPANT == "participants"
PARTICIPANT_STATE == "participant_states"
PARTICIPATION == "participations"
PERSONALITY == "personalities"
RECORDING == "recordings"
REGISTERED_CHANNEL == "registered_channels"
REGISTERED_DATA == "registered_data"
SCENARIO == "scenarios"
TIME_SERIES == "timeSeries"

Collections ==
    { DATASET, ACTIVITY, ACTIVITY_EXECUTION, APPEARANCE, ARRANGEMENT, CHANNEL,
      EXPERIMENT, LIFE_ACTIVITY, MEASURE, MEASURE_NAME, MODALITY,
      OBSERVABLE_INFORMATION, PARTICIPANT, PARTICIPANT_STATE, PARTICIPATION,
      PERSONALITY, RECORDING, REGISTERED_CHANNEL, REGISTERED_DATA, SCENARIO,
      TIME_SERIES }

\* Kinds that have no collection of their own: they live in a list field,
\* named after the kind, of their parent's document.
EmbeddedKinds == { ACTIVITY_EXECUTION, OBSERVABLE_INFORMATION, PARTICIPANT_STATE }

ParentOf(kind) ==
    CASE kind = ACTIVITY_EXECUTION -> ACTIVITY
      [] kind = OBSERVABLE_INFORMATION -> RECORDING
      [] kind = PARTICIPANT_STATE -> PARTICIPANT

\* Largest depth a public read is issued with.
MaxDepth == 3

(***************************************************************************)
(* PART 1.  The hydration call graph.                                      *)
(*                                                                         *)
(* A call is a record                                                      *)
(*   svc    the service (by collection name) that is called                *)
(*   op     "get"   get_single_dict / get_multiple / get_X: fetch the      *)
(*                  service's own documents, then run its hook on them     *)
(*          "hook"  _add_related_documents called directly on an embedded  *)
(*                  child that the parent already holds                    *)
(*          or the name of a scenario-service method                       *)
(*   depth, source  the arguments the call carries                         *)
(*   field  the field of the caller's document that receives the call's    *)
(*          result ("" when the result is not attached)                    *)
(*   level  number of relationship hops between the requested entity and   *)
(*          the entities this call returns                                 *)
(***************************************************************************)
Call(svc, op, depth, source, field, level) ==
    [svc |-> svc, op |-> op, depth |-> depth, source |-> source,
     field |-> field, level |-> level]

NoCall == Call("", "", 0, "", "", 0)

\* channel_service_mongodb.py
ChannelAddRelatedDocuments(depth, source, level) ==
    IF source # REGISTERED_CHANNEL /\ depth > 0
    THEN { Call(REGISTERED_CHANNEL, "get", depth - 1, CHANNEL, "registered_channels", level + 1) }
    ELSE {}

\* registered_channel_service_mongodb.py
RegisteredChannelAddRelatedDocuments(depth, source, level) ==
    IF depth > 0
    THEN (IF source # RECORDING
          THEN { Call(RECORDING, "get", depth - 1, REGISTERED_CHANNEL, "recordings", level + 1) }
          ELSE {})
         \cup
         (IF source # CHANNEL
          THEN { Call(CHANNEL, "get", depth - 1, REGISTERED_CHANNEL, "channel", level + 1) }
          ELSE {})
         \cup
         (IF source # REGISTERED_DATA
          THEN { Call(REGISTERED_DATA, "get", depth - 1, REGISTERED_CHANNEL, "registered_data", level + 1) }
          ELSE {})
    ELSE {}

\* registered_data_service_mongodb.py
RegisteredDataAddRelatedDocuments(depth, source, level) ==
    IF source # REGISTERED_CHANNEL /\ depth > 0
    THEN { Call(REGISTERED_CHANNEL, "get", depth - 1, REGISTERED_DATA, "registered_channels", level + 1) }
    ELSE {}

\* recording_service_mongodb.py
RecordingAddRelatedDocuments(depth, source, level) ==
    IF depth > 0
    THEN (IF source # REGISTERED_CHANNEL
          THEN { Call(REGISTERED_CHANNEL, "get", depth - 1, RECORDING, "registered_channel", level + 1) }
          ELSE {})
         \cup
         (IF source # PARTICIPATION
          THEN { Call(PARTICIPATION, "get", depth - 1, RECORDING, "participation", level + 1) }
          ELSE {})
         \cup
         (IF source # OBSERVABLE_INFORMATION
          THEN { Call(OBSERVABLE_INFORMATION, "hook", depth - 1, RECORDING, OBSERVABLE_INFORMATION, level + 1) }
          ELSE {})
    ELSE {}

\* observable_information_service_mongodb.py
ObservableInformationAddRelatedDocuments(depth, source, level) ==
    IF depth > 0
    THEN (IF source # TIME_SERIES
          THEN { Call(TIME_SERIES, "get", depth - 1, OBSERVABLE_INFORMATION, "timeSeries", level + 1) }
          ELSE {})
         \cup
         (IF source # MODALITY
          THEN { Call(MODALITY, "get", depth - 1, OBSERVABLE_INFORMATION, "modality", level + 1) }
          ELSE {})
         \cup
         (IF source # LIFE_ACTIVITY
          THEN { Call(LIFE_ACTIVITY, "get", depth - 1, OBSERVABLE_INFORMATION, "life_activity", level + 1) }
          ELSE {})
    ELSE {}

\* modality_service_mongodb.py
ModalityAddRelatedDocuments(depth, source, level) ==
    IF source # OBSERVABLE_INFORMATION /\ depth > 0
    THEN { Call(OBSERVABLE_INFORMATION, "get", depth - 1, MODALITY, "observable_informations", level + 1) }
    ELSE {}

\* life_activity_service_mongodb.py
LifeActivityAddRelatedDocuments(depth, source, level) ==
    IF source # OBSERVABLE_INFORMATION /\ depth > 0
    THEN { Call(OBSERVABLE_INFORMATION, "get", depth - 1, LIFE_ACTIVITY, "observable_informations", level + 1) }
    ELSE {}

\* measure_service_mongodb.py
MeasureAddRelatedDocuments(depth, source, level) ==
    IF depth > 0
    THEN (IF source # TIME_SERIES
          THEN { Call(TIME_SERIES, "get", depth - 1, MEASURE, "time_series", level + 1) }
          ELSE {})
         \cup
         (IF source # MEASURE_NAME
          THEN { Call(MEASURE_NAME, "get", depth - 1, MEASURE, "measure_name", level + 1) }
          ELSE {})
    ELSE {}

\* measure_name_service_mongodb.py
MeasureNameAddRelatedDocuments(depth, source, level) ==
    IF source # MEASURE /\ depth > 0
    THEN { Call(MEASURE, "get", depth - 1, MEASURE_NAME, "measures", level + 1) }
    ELSE {}

\* time_series_service_mongodb.py
TimeSeriesAddRelatedDocuments(depth, source, level) ==
    IF depth > 0
    THEN (IF source # MEASURE
          THEN { Call(MEASURE, "get", depth - 1, TIME_SERIES, "measure", level + 1) }
          ELSE {})
         \cup
         (IF source # OBSERVABLE_INFORMATION
          THEN { Call(OBSERVABLE_INFORMATION, "get", depth - 1, TIME_SERIES, "observable_informations", level + 1) }
          ELSE {})
    ELSE {}

\* participation_service_mongodb.py
ParticipationAddRelatedDocuments(depth, source, level) ==
    IF depth > 0
    THEN (IF source # RECORDING
          THEN { Call(RECORDING, "get", depth - 1, PARTICIPATION, "recordings", level + 1) }
          ELSE {})
         \cup
         (IF source # PARTICIPANT_STATE
          THEN { Call(PARTICIPANT_STATE, "get", depth - 1, PARTICIPATION, "participant_state", level + 1) }
          ELSE {})
         \cup
         (IF source # ACTIVITY_EXECUTION /\ source # EXPERIMENT
          THEN { Call(ACTIVITY_EXECUTION, "get", depth - 1, ACTIVITY_EXECUTION, "activity_execution", level + 1) }
          ELSE {})
    ELSE {}

\* participant_service_mongodb.py
ParticipantAddRelatedDocuments(depth, source, level) ==
    IF depth > 0 /\ source # PARTICIPANT_STATE
    THEN { Call(PARTICIPANT_STATE, "hook", depth - 1, PARTICIPANT, PARTICIPANT_STATE, level + 1) }
    ELSE {}

\* participant_state_service_mongodb.py
ParticipantStateAddRelatedDocuments(depth, source, level) ==
    IF depth > 0
    THEN (IF source # PERSONALITY
          THEN { Call(PERSONALITY, "get", depth - 1, PARTICIPANT_STATE, "personalities", level + 1) }
          ELSE {})
         \cup
         (IF source # APPEARANCE
          THEN { Call(APPEARANCE, "get", depth - 1, PARTICIPANT_STATE, "appearances", level + 1) }
          ELSE {})
         \cup
         (IF source # PARTICIPATION
          THEN { Call(PARTICIPATION, "get", depth - 1, PARTICIPANT_STATE, "participations", level + 1) }
          ELSE {})
    ELSE {}

\* appearance_service_mongodb.py
AppearanceAddRelatedDocuments(depth, source, level) ==
    IF depth > 0 /\ source # PARTICIPANT_STATE
    THEN { Call(PARTICIPANT_STATE, "get", depth - 1, APPEARANCE, "participant_states", level + 1) }
    ELSE {}

\* personality_service_mongodb.py
PersonalityAddRelatedDocuments(depth, source, level) ==
    IF depth > 0 /\ source # PARTICIPANT_STATE
    THEN { Call(PARTICIPANT_STATE, "get", depth - 1, PERSONALITY, "participant_states", level + 1) }
    ELSE {}

\* activity_service_mongodb.py
ActivityAddRelatedDocuments(depth, source, level) ==
    IF depth > 0 /\ source # ACTIVITY_EXECUTION
    THEN { Call(ACTIVITY_EXECUTION, "hook", depth - 1, ACTIVITY, ACTIVITY_EXECUTION, level + 1) }
    ELSE {}

\* activity_execution_service_mongodb.py: the hook first replaces an empty
\* source by its own marker and hands that marker on to its neighbours.
ActivityExecutionSource(source) == IF source # "" THEN source ELSE ACTIVITY_EXECUTION

ActivityExecutionAddRelatedDocuments(depth, source, level) ==
    LET src == ActivityExecutionSource(source) IN
    IF depth > 0
    THEN (IF src # ARRANGEMENT
          THEN { Call(ARRANGEMENT, "get", depth - 1, src, "arrangement", level + 1) }
          ELSE {})
         \cup
         (IF src # EXPERIMENT /\ src # SCENARIO
          THEN { Call(SCENARIO, "get_scenario_by_activity_execution", depth, src, "experiments", level) }
          ELSE {})
         \cup
         (IF src # PARTICIPATION
          THEN { Call(PARTICIPATION, "get", depth - 1, src, "participations", level + 1) }
          ELSE {})
    ELSE {}

\* arrangement_service_mongodb.py
ArrangementAddRelatedDocuments(depth, source, level) ==
    IF source # ACTIVITY_EXECUTION /\ depth > 0
    THEN { Call(ACTIVITY_EXECUTION, "get", depth - 1, ARRANGEMENT, "activity_executions", level + 1) }
    ELSE {}

\* experiment_service_mongodb.py
ExperimentAddRelatedDocuments(depth, source, level) ==
    IF depth <= 0 \/ source = ACTIVITY_EXECUTION \/ source = EXPERIMENT
    THEN {}
    ELSE { Call(SCENARIO, "get_scenarios_by_experiment", depth,
                IF source # "" THEN source ELSE EXPERIMENT, "scenarios", level + 1) }

\* scenario_service_mongodb.py: get_scenarios_by_experiment and
\* get_scenario_by_activity_execution read the scenarios with get_multiple
\* (default depth, the scenario hook is empty) and then convert each of them.
ScenarioGetBy(depth, source, field, level) ==
    { Call(SCENARIO, "_change_ids_to_objects", depth, source, field, level) }

\* scenario_service_mongodb.py, _change_ids_to_objects: field tells what the
\* caller keeps of the converted scenario: "experiments" keeps only its
\* experiment, anything else keeps the scenario with both relationships.
\* (mutation of ChangeIdsDepth: the depth is handed on undiminished)
ChangeIdsDepthKept(depth) == depth

ChangeIdsDepth(depth) == IF depth - 1 > 0 THEN depth - 1 ELSE 0

ScenarioChangeIdsToObjects(depth, source, field, level) ==
    LET d == ChangeIdsDepth(depth)
        src == IF source # "" THEN source ELSE SCENARIO
    IN  (IF src # ACTIVITY_EXECUTION
         THEN { Call(ACTIVITY_EXECUTION, "get", d, src,
                     IF field = "experiments" THEN "" ELSE ACTIVITY_EXECUTION, level + 1) }
         ELSE {})
        \cup
        (IF src # EXPERIMENT
         THEN { Call(EXPERIMENT, "get", d, src,
                     IF field = "experiments" THEN "experiments" ELSE "experiment", level + 1) }
         ELSE {})

\* The hook of each service (scenario and dataset have an empty one).
AddRelatedDocuments(svc, depth, source, level) ==
    CASE svc = CHANNEL -> ChannelAddRelatedDocuments(depth, source, level)
      [] svc = REGISTERED_CHANNEL -> RegisteredChannelAddRelatedDocuments(depth, source, level)
      [] svc = REGISTERED_DATA -> RegisteredDataAddRelatedDocuments(depth, source, level)
      [] svc = RECORDING -> RecordingAddRelatedDocuments(depth, source, level)
      [] svc = OBSERVABLE_INFORMATION -> ObservableInformationAddRelatedDocuments(depth, source, level)
      [] svc = MODALITY -> ModalityAddRelatedDocuments(depth, source, level)
      [] svc = LIFE_ACTIVITY -> LifeActivityAddRelatedDocuments(depth, source, level)
      [] svc = MEASURE -> MeasureAddRelatedDocuments(depth, source, level)
      [] svc = MEASURE_NAME -> MeasureNameAddRelatedDocuments(depth, source, level)
      [] svc = TIME_SERIES -> TimeSeriesAddRelatedDocuments(depth, source, level)
      [] svc = PARTICIPATION -> ParticipationAddRelatedDocuments(depth, source, level)
      [] svc = PARTICIPANT -> ParticipantAddRelatedDocuments(depth, source, level)
      [] svc = PARTICIPANT_STATE -> ParticipantStateAddRelatedDocuments(depth, source, level)
      [] svc = APPEARANCE -> AppearanceAddRelatedDocuments(depth, source, level)
      [] svc = PERSONALITY -> PersonalityAddRelatedDocuments(depth, source, level)
      [] svc = ACTIVITY -> ActivityAddRelatedDocuments(depth, source, level)
      [] svc = ACTIVITY_EXECUTION -> ActivityExecutionAddRelatedDocuments(depth, source, level)
      [] svc = ARRANGEMENT -> ArrangementAddRelatedDocuments(depth, source, level)
      [] svc = EXPERIMENT -> ExperimentAddRelatedDocuments(depth, source, level)
      [] OTHER -> {}

\* get_single_dict / get_multiple of an embedded kind: the parent documents
\* are read through the parent service with depth - 1 and the kind's own
\* marker as source; the child's hook then attaches the parent it was given
\* unless the call came from the parent kind.
EmbeddedParentAttached(svc, depth, source) ==
    CASE svc = ACTIVITY_EXECUTION ->
            depth > 0 /\ ActivityExecutionSource(source) # ACTIVITY
      [] svc = OBSERVABLE_INFORMATION -> depth > 0 /\ source # RECORDING
      [] svc = PARTICIPANT_STATE -> depth > 0 /\ source # PARTICIPANT

EmbeddedParentField(svc) ==
    CASE svc = ACTIVITY_EXECUTION -> "activity"
      [] svc = OBSERVABLE_INFORMATION -> "recording"
      [] svc = PARTICIPANT_STATE -> "participant"

EmbeddedGet(svc, depth, source, level) ==
    { Call(ParentOf(svc), "get", depth - 1, svc,
           IF EmbeddedParentAttached(svc, depth, source)
           THEN EmbeddedParentField(svc) ELSE "", level + 1) }
    \cup AddRelatedDocuments(svc, depth, source, level)

\* Every call the given call makes to a service.
Callees(f) ==
    CASE f.op = "get" /\ f.svc \in EmbeddedKinds ->
            EmbeddedGet(f.svc, f.depth, f.source, f.level)
      [] f.op = "get" /\ f.svc \notin EmbeddedKinds ->
            AddRelatedDocuments(f.svc, f.depth, f.source, f.level)
      [] f.op = "hook" -> AddRelatedDocuments(f.svc, f.depth, f.source, f.level)
      [] f.op \in { "get_scenario", "get_scenarios_by_experiment",
                    "get_scenario_by_activity_execution" } ->
            ScenarioGetBy(f.depth, f.source, f.field, f.level)
      [] f.op = "_change_ids_to_objects" ->
            ScenarioChangeIdsToObjects(f.depth, f.source, f.field, f.level)
      [] OTHER -> {}

\* The public reads: get_X(id, dataset, depth) of every service; the
\* scenario service's get_scenario converts the scenario it found.
PublicRead(svc, depth) ==
    Call(svc, IF svc = SCENARIO THEN "get_scenario" ELSE "get", depth, "", "", 0)

Request(svc, depth) ==
    /\ frame = NoCall
    /\ root' = PublicRead(svc, depth)
    /\ frame' = PublicRead(svc, depth)
    /\ caller' = NoCall
    /\ hops' = 0
    /\ UNCHANGED storeVars

\* The current call makes one of its nested calls.
Descend ==
    /\ frame # NoCall
    /\ \E c \in Callees(frame) :
          /\ caller' = frame
          /\ frame' = c
          /\ hops' = hops + 1
    /\ UNCHANGED <<root, storeVars>>

\* The request completes (the calls of the chain return).
Return ==
    /\ frame # NoCall
    /\ root' = NoCall
    /\ caller' = NoCall
    /\ frame' = NoCall
    /\ hops' = 0
    /\ UNCHANGED storeVars

Depths == 0 .. MaxDepth

InitTrav ==
    /\ root = NoCall
    /\ caller = NoCall
    /\ frame = NoCall
    /\ hops = 0


(***************************************************************************)
(* Claims about the hydration call graph (checked under SpecTrav).         *)
(***************************************************************************)

\* True when the current call is a nested call of a running read.
Nested == frame # NoCall /\ caller # NoCall

\* C1: a read at depth N attaches only entities at most N relationship hops
\* away; every call a service makes to a neighbouring service carries a
\* depth exactly one less than its own; and a step entered with depth <= 0
\* attaches nothing.
C1_DepthBoundsHydration ==
    Nested =>
        /\ (frame.field # "" => frame.level <= root.depth)
        /\ (frame.svc # caller.svc => frame.depth = caller.depth - 1)
        /\ (caller.depth <= 0 => frame.field = "")

\* C2: a read of any kind (scenario included) with depth 0 populates no
\* relationship field: no nested call's result is attached.
C2_DepthZeroPopulatesNothing ==
    (Nested /\ root.depth = 0) => frame.field = ""

\* C3: for a read of kind A at depth N >= 2, an entity B attached directly
\* to A carries no populated field that holds entities of kind A again.
C3_NoFieldBackToRequestedKind ==
    (Nested /\ root.depth >= 2 /\ caller.level = 1 /\ caller.field # ""
        /\ frame.level = 2 /\ frame.field # "")
    => frame.svc # root.svc

\* C4: every read with a finite depth terminates whatever references the
\* store holds: the chain of nested calls below a read of depth N never
\* grows beyond 3 * N + 3 calls (each unit of depth buys at most three
\* nested calls, and at most three more follow once the depth is used up),
\* also on the cycles through experiment, scenario, activity execution and
\* participation.
C4_ChainBounded == hops <= 3 * root.depth + 3

\* C4 witness: a scenario read whose chain came back to the scenario service
\* through the experiment it attached, and stopped there for lack of depth.
C4_Witness ==
    /\ root.svc = SCENARIO
    /\ root.depth >= 2
    /\ frame.svc = EXPERIMENT
    /\ caller.op = "_change_ids_to_objects"
    /\ hops >= 5
    /\ Callees(frame) = {}

(***************************************************************************)
(* PART 2.  The document store and the services that read and write it.    *)
(*                                                                         *)
(* Values.  Every field value is a tagged record:                          *)
(*   Null          Python None                                             *)
(*   Oid(n)        a bson ObjectId                                         *)
(*   IdStr(n, up)  the 24-digit hex string of ObjectId n, written with     *)
(*                 upper-case (up) or lower-case hex digits                *)
(*   BadStr        a string that is not 24 hex digits                      *)
(*   Val(x)        any other primitive                                     *)
(*   Lst(s)        a list of primitives                                    *)
(*   Emb(s)        a list of dicts (embedded or attached documents)        *)
(*   Doc(d)        a dict (an attached document)                           *)
(*   NotFound(id)  NotFoundByIdModel(id)                                   *)
(*   Errors(e)     an output model carrying only an errors field           *)
(*   Raise(e)      the call raised exception e                             *)
(* A document (dict) is a function from field names to values.             *)
(***************************************************************************)
Null == [t |-> "null"]
Oid(n) == [t |-> "oid", v |-> n]
IdStr(n, up) == [t |-> "str", v |-> n, up |-> up]
BadStr == [t |-> "bad"]
Val(x) == [t |-> "val", v |-> x]
Lst(s) == [t |-> "list", v |-> s]
Emb(s) == [t |-> "docs", v |-> s]
Doc(d) == [t |-> "doc", v |-> d]
NotFound(id) == [t |-> "notfound", v |-> id]
Errors(e) == [t |-> "errors", v |-> e]
Raise(e) == [t |-> "raise", v |-> e]

IsRaise(x) == x.t = "raise"
IsNotFound(x) == x.t = "notfound"

\* bson.ObjectId(x): parses hex strings of either case, passes ObjectIds
\* through, generates a fresh id (fresh) for None, raises InvalidId otherwise.
ValidObjectId(x) == x.t \in { "oid", "str", "null" }

ObjectId(x, fresh) ==
    CASE x.t = "oid" -> x
      [] x.t = "str" -> Oid(x.v)
      [] x.t = "null" -> Oid(fresh)
      [] OTHER -> Raise("InvalidId")

\* str(ObjectId): always lower-case hex.
StrOfId(x) == IF x.t = "oid" THEN IdStr(x.v, FALSE) ELSE x

\* MongoApiService._field_is_id: the field is "id" or ends in "_id" / ".id"
\* (listed for the field names that occur in the modelled documents).
IdFields ==
    { "id", "_id", "channel_id", "registered_data_id", "registered_channel_id",
      "participation_id", "recording_id", "modality_id", "life_activity_id",
      "activity_id", "arrangement_id", "experiment_id", "measure_id",
      "observable_informations.id", "observable_informations.recording_id",
      "observable_informations.modality_id",
      "observable_informations.life_activity_id",
      "activity_executions.id", "activity_executions.activity_id",
      "activity_executions.arrangement_id",
      "participant_id", "participant_state_id", "activity_execution_id",
      "observable_information_id", "participant_states.id",
      "participant_states.participant_id", "metadata.id" }

FieldIsId(field) == field \in IdFields

\* Removing and setting a key of a dict.
Without(d, field) == [f \in DOMAIN d \ {field} |-> d[f]]
With(d, field, value) ==
    [f \in DOMAIN d \cup {field} |-> IF f = field THEN value ELSE d[f]]
Has(d, field) == field \in DOMAIN d

\* MongoApiService._mongo_object_deep_iterate with fix_input_id (dir = "in")
\* or fix_output_id (dir = "out"): dicts and dicts inside lists are walked,
\* lists of primitives are left alone, None is left alone.
RECURSIVE DeepIterate(_, _)
DeepIterate(d, dir) ==
    [f \in DOMAIN d |->
        LET x == d[f] IN
        CASE x.t = "doc" -> Doc(DeepIterate(x.v, dir))
          [] x.t = "docs" ->
                Emb([i \in 1 .. Len(x.v) |-> DeepIterate(x.v[i], dir)])
          [] x.t = "list" -> x
          [] x.t = "null" -> x
          [] OTHER ->
                IF ~FieldIsId(f) THEN x
                ELSE IF dir = "in" THEN ObjectId(x, 0) ELSE StrOfId(x)]

\* True when _fix_input_ids would raise InvalidId on the dict.
RECURSIVE FixRaises(_)
FixRaises(d) ==
    \E f \in DOMAIN d :
        LET x == d[f] IN
        CASE x.t = "doc" -> FixRaises(x.v)
          [] x.t = "docs" -> \E i \in 1 .. Len(x.v) : FixRaises(x.v[i])
          [] OTHER -> FieldIsId(f) /\ x.t = "bad"

FixInputIds(d) == DeepIterate(d, "in")
FixOutputIds(d) == DeepIterate(d, "out")

\* MongoApiService._update_mongo_input_id / _update_mongo_output_id
UpdateMongoInputId(d, fresh) ==
    IF Has(d, "id")
    THEN FixInputIds(With(Without(d, "id"), "_id", ObjectId(d["id"], fresh)))
    ELSE FixInputIds(d)

UpdateMongoOutputId(d) ==
    IF Has(d, "_id")
    THEN FixOutputIds(With(Without(d, "_id"), "id", d["_id"]))
    ELSE FixOutputIds(d)

(***************************************************************************)
(* The store: one database per dataset, one sequence of documents (in      *)
(* insertion order) per collection.  Operators take the store st and the   *)
(* next fresh ObjectId explicitly, so that they can be evaluated on the    *)
(* state before and after a step.                                          *)
(***************************************************************************)
mongo_database_name == "road"

Datasets == { mongo_database_name }

\* pymongo's client[dataset_id]: every non-empty name is a database (empty
\* until it is written to); the empty name raises InvalidName.
ValidName(ds) == ds # ""

\* Number of ObjectIds the model lets bson generate.
MaxIds == 2

Rows(st, ds, c) == st[ds][c]

\* Index of the first document with the given _id, 0 when there is none.
IndexOfId(rows, oid) ==
    IF \E i \in 1 .. Len(rows) : rows[i]["_id"] = oid
    THEN CHOOSE i \in 1 .. Len(rows) :
            /\ rows[i]["_id"] = oid
            /\ \A j \in 1 .. i - 1 : rows[j]["_id"] # oid
    ELSE 0

\* A query value against a stored value: equal, or the stored value is an
\* array that holds it.  Values of different BSON types never match.
MatchValue(stored, wanted) ==
    \/ stored = wanted
    \/ stored.t = "list" /\ \E i \in 1 .. Len(stored.v) : stored.v[i] = wanted
    \/ wanted.t = "in" /\ \E i \in 1 .. Len(wanted.v) : stored = wanted.v[i]

\* MongoApiService.get_id_in_query: {"$in": [ObjectId(str(id)) for id in id_list]}
GetIdInQuery(id_list) ==
    [t |-> "in", v |-> [i \in 1 .. Len(id_list.v) |-> ObjectId(id_list.v[i], 0)]]

\* Field paths "<embedded list>.<field>" used in parent queries.
EmbeddedListFields == { OBSERVABLE_INFORMATION, ACTIVITY_EXECUTION, PARTICIPANT_STATE }
ChildFields == { "id", "recording_id", "modality_id", "life_activity_id",
                 "activity_id", "arrangement_id" }

PathOf(list, field) == list \o "." \o field

IsPath(f) == \E l \in EmbeddedListFields, c \in ChildFields : f = PathOf(l, c)
PathList(f) == CHOOSE l \in EmbeddedListFields : \E c \in ChildFields : f = PathOf(l, c)
PathField(f) == CHOOSE c \in ChildFields : \E l \in EmbeddedListFields : f = PathOf(l, c)

\* An array element against an $elemMatch condition.
ElemMatches(elem, cond) ==
    \A f \in DOMAIN cond : Has(elem, f) /\ MatchValue(elem[f], cond[f])

\* A document against a find() filter.
Matches(d, query) ==
    \A f \in DOMAIN query :
        IF IsPath(f)
        THEN /\ Has(d, PathList(f))
             /\ d[PathList(f)].t = "docs"
             /\ \E i \in 1 .. Len(d[PathList(f)].v) :
                   /\ Has(d[PathList(f)].v[i], PathField(f))
                   /\ MatchValue(d[PathList(f)].v[i][PathField(f)], query[f])
        ELSE Has(d, f) /\ MatchValue(d[f], query[f])

\* A projection is either NoProjection or a record
\*   [list, cond, fields]: return _id, the listed fields, and of the array
\*   field `list` only the first element that satisfies cond ($elemMatch);
\*   an empty cond stands for "list: 1", the whole array.
NoProjection == [list |-> "", cond |-> <<>>, fields |-> {}]

FirstMatch(elems, cond) ==
    IF \E i \in 1 .. Len(elems) : ElemMatches(elems[i], cond)
    THEN << elems[CHOOSE i \in 1 .. Len(elems) :
                    /\ ElemMatches(elems[i], cond)
                    /\ \A j \in 1 .. i - 1 : ~ElemMatches(elems[j], cond)] >>
    ELSE << >>

Project(d, projection) ==
    IF projection = NoProjection THEN d
    ELSE LET list == projection.list
             kept == (projection.fields \cup {"_id"}) \cap DOMAIN d
             whole == DOMAIN projection.cond = {}
             hit == IF Has(d, list) /\ d[list].t = "docs"
                    THEN FirstMatch(d[list].v, projection.cond)
                    ELSE << >>
             listKept == /\ Has(d, list)
                         /\ (whole \/ hit # << >>)
         IN  [f \in kept \cup (IF listKept THEN {list} ELSE {}) |->
                 IF f = list /\ ~whole THEN Emb(hit) ELSE d[f]]

\* SelectSeq with the documents kept in order.
RECURSIVE Filter(_, _)
Filter(rows, query) ==
    IF rows = << >> THEN << >>
    ELSE IF Matches(Head(rows), query)
         THEN << Head(rows) >> \o Filter(Tail(rows), query)
         ELSE Filter(Tail(rows), query)

\* MongoApiService.get_document
GetDocument(st, fresh, id, c, ds) ==
    IF ~ValidName(ds) THEN Raise("InvalidName")
    ELSE IF ~ValidObjectId(id) THEN Raise("InvalidId")
    ELSE LET rows == Rows(st, ds, c)
             i == IndexOfId(rows, ObjectId(id, fresh))
         IN  IF i = 0 THEN NotFound(id) ELSE Doc(UpdateMongoOutputId(rows[i]))

\* MongoApiService.get_documents; the result is Emb(list) or Raise.
GetDocuments(st, c, ds, query, projection) ==
    IF FixRaises(query) THEN Raise("InvalidId")
    ELSE LET found == Filter(Rows(st, IF ds = "" THEN mongo_database_name ELSE ds, c),
                             FixInputIds(query))
         IN  Emb([i \in 1 .. Len(found) |->
                    UpdateMongoOutputId(Project(found[i], projection))])

\* Collections that exist in a database (embedded kinds have none).
StoredCollections == Collections \ EmbeddedKinds

EmptyStore == [ds \in Datasets |-> [c \in StoredCollections |-> << >>]]

SetRows(st, ds, c, rows) == [st EXCEPT ![ds][c] = rows]

\* Every write operator returns an outcome: the store and the next fresh id
\* it leaves behind and the value it returns (possibly Raise).
Outcome(st, nid, out) == [st |-> st, nid |-> nid, out |-> out]

\* MongoApiService.create_document / create_document_from_dict: insert_one
\* gives the document a fresh _id; the id is returned as a string.
CreateDocumentFromDict(st, nid, d, c, ds) ==
    IF FixRaises(d) THEN Outcome(st, nid, Raise("InvalidId"))
    ELSE IF ~ValidName(ds) THEN Outcome(st, nid, Raise("InvalidName"))
    ELSE Outcome(SetRows(st, ds, c,
                         Append(Rows(st, ds, c), With(FixInputIds(d), "_id", Oid(nid)))),
                 nid + 1, StrOfId(Oid(nid)))

\* A merging write ($set of the new fields over the stored document), which
\* is what update_document_with_dict would be were it not a replace_one.
UpdateDocumentWithDictMerge(st, nid, c, id, d, ds) ==
    IF FixRaises(d) \/ (Has(d, "id") /\ ~ValidObjectId(d["id"])) \/ ~ValidObjectId(id)
    THEN Outcome(st, nid, Raise("InvalidId"))
    ELSE IF ~ValidName(ds) THEN Outcome(st, nid, Raise("InvalidName"))
    ELSE LET new == UpdateMongoInputId(d, nid)
             oid == ObjectId(id, nid)
             rows == Rows(st, ds, c)
             i == IndexOfId(rows, oid)
         IN  IF i = 0 THEN Outcome(st, nid, Null)
             ELSE Outcome(SetRows(st, ds, c,
                                  [rows EXCEPT ![i] =
                                      [f \in DOMAIN rows[i] \cup DOMAIN new |->
                                          IF f \in DOMAIN new /\ f # "_id"
                                          THEN new[f] ELSE rows[i][f]]]),
                          nid, Null)

\* MongoApiService.update_document / update_document_with_dict: replace_one
\* swaps the whole first document with that _id for the new one (which keeps
\* the _id); nothing happens when no document has it.
UpdateDocumentWithDict(st, nid, c, id, d, ds) ==
    IF FixRaises(d) \/ (Has(d, "id") /\ ~ValidObjectId(d["id"])) \/ ~ValidObjectId(id)
    THEN Outcome(st, nid, Raise("InvalidId"))
    ELSE IF ~ValidName(ds) THEN Outcome(st, nid, Raise("InvalidName"))
    ELSE LET new == UpdateMongoInputId(d, nid)
             oid == ObjectId(id, nid)
             rows == Rows(st, ds, c)
             i == IndexOfId(rows, oid)
         IN  IF i = 0 THEN Outcome(st, nid, Null)
             ELSE IF Has(new, "_id") /\ new["_id"] # oid
                  THEN Outcome(st, nid, Raise("WriteError"))
                  ELSE Outcome(SetRows(st, ds, c,
                                       [rows EXCEPT ![i] = With(new, "_id", oid)]),
                               nid, Null)

\* collection_mapping.get_collection_name succeeds on the class of a value a
\* service holds: a NotFoundByIdModel is a subclass of no mapped model class.
ClassIsMapped(obj) == obj.t = "doc"

RemoveAt(rows, i) == [j \in 1 .. Len(rows) - 1 |-> IF j < i THEN rows[j] ELSE rows[j + 1]]

\* MongoApiService.delete_document: obj is the model object to delete, c
\* the collection its class maps to.
DeleteDocument(st, nid, obj, c, ds) ==
    LET id_str == IF obj.t = "doc"
                  THEN (IF Has(obj.v, "id") THEN obj.v["id"] ELSE Null)
                  ELSE IF obj.t = "notfound" THEN obj.v ELSE Null
    IN  IF id_str = Null THEN Outcome(st, nid, Raise("TypeError"))
        ELSE IF ~ValidObjectId(id_str) THEN Outcome(st, nid, Raise("InvalidId"))
        ELSE IF ~ClassIsMapped(obj) THEN Outcome(st, nid, Raise("ValueError"))
        ELSE IF ~ValidName(ds) THEN Outcome(st, nid, Raise("InvalidName"))
        ELSE LET rows == Rows(st, ds, c)
                 i == IndexOfId(rows, ObjectId(id_str, nid))
             IN  Outcome(IF i = 0 THEN st ELSE SetRows(st, ds, c, RemoveAt(rows, i)),
                         nid, ObjectId(id_str, nid))

(***************************************************************************)
(* Reads with hydration on the stored documents.  The guards, depths and   *)
(* sources of the nested reads are those of the hooks of part 1; Relation  *)
(* says how each attached field is fetched.                                *)
(***************************************************************************)
Single(fk) == [kind |-> "single", fk |-> fk]
Many(fk) == [kind |-> "many", fk |-> fk]
ByIds(fk) == [kind |-> "ids", fk |-> fk]
Children == [kind |-> "children", fk |-> ""]

Relation(svc, field) ==
    CASE svc = CHANNEL /\ field = "registered_channels" -> Many("channel_id")
      [] svc = REGISTERED_CHANNEL /\ field = "recordings" -> Many("registered_channel_id")
      [] svc = REGISTERED_CHANNEL /\ field = "channel" -> Single("channel_id")
      [] svc = REGISTERED_CHANNEL /\ field = "registered_data" -> Single("registered_data_id")
      [] svc = REGISTERED_DATA /\ field = "registered_channels" -> Many("registered_data_id")
      [] svc = RECORDING /\ field = "registered_channel" -> Single("registered_channel_id")
      [] svc = RECORDING /\ field = "participation" -> Single("participation_id")
      [] svc = RECORDING /\ field = OBSERVABLE_INFORMATION -> Children
      [] svc = OBSERVABLE_INFORMATION /\ field = "modality" -> Single("modality_id")
      [] svc = OBSERVABLE_INFORMATION /\ field = "life_activity" -> Single("life_activity_id")
      [] svc = OBSERVABLE_INFORMATION /\ field = "timeSeries" ->
            Many("metadata.observable_information_ids")
      [] svc = MODALITY /\ field = "observable_informations" -> Many("modality_id")
      [] svc = LIFE_ACTIVITY /\ field = "observable_informations" -> Many("life_activity_id")
      [] svc = ACTIVITY /\ field = ACTIVITY_EXECUTION -> Children
      [] svc = PARTICIPANT /\ field = PARTICIPANT_STATE -> Children
      [] svc = PARTICIPANT_STATE /\ field = "personalities" -> ByIds("personality_ids")
      [] svc = PARTICIPANT_STATE /\ field = "appearances" -> ByIds("appearance_ids")
      [] svc = PARTICIPANT_STATE /\ field = "participations" -> Many("participant_state_id")

\* has_related_...: a single relation is followed when the foreign id is
\* not None, embedded children when the list is there.
Applicable(svc, c, d) ==
    LET rel == Relation(svc, c.field) IN
    CASE rel.kind = "single" -> d[rel.fk] # Null
      [] rel.kind = "ids" -> d[rel.fk] # Null
      [] rel.kind = "children" -> Has(d, c.field) /\ d[c.field] # Null
      [] OTHER -> TRUE

\* _get_recording_projection / _get_activity_projection /
\* _get_participant_projection
EmbeddedProjection(svc, cond) ==
    [list |-> svc, cond |-> cond,
     fields |-> CASE svc = OBSERVABLE_INFORMATION ->
                        { "additional_properties", "participation_id",
                          "registered_channel_id" }
                  [] svc = ACTIVITY_EXECUTION ->
                        { "additional_properties", "activity", "activity_id",
                          "arrangement_id" }
                  [] svc = PARTICIPANT_STATE ->
                        { "additional_properties", "name", "date_of_birth",
                          "sex", "disorder" }
                  [] OTHER -> {}]

RECURSIVE Flatten(_)
Flatten(lists) ==
    IF lists = << >> THEN << >> ELSE Head(lists) \o Flatten(Tail(lists))

RECURSIVE GetSingleDict(_, _, _, _, _, _, _)
RECURSIVE GetMultiple(_, _, _, _, _, _, _, _)
RECURSIVE AddRelated(_, _, _, _, _, _, _)
RECURSIVE AddRelatedEmbedded(_, _, _, _, _, _, _, _)
RECURSIVE Fetch(_, _, _, _, _, _)

\* The value a hook stores under the field of nested call c, whose relation
\* is rel.
Fetch(st, fresh, c, rel, d, ds) ==
    CASE rel.kind = "single" ->
            GetSingleDict(st, fresh, c.svc, d[rel.fk], ds, c.depth, c.source)
      [] rel.kind = "many" ->
            GetMultiple(st, fresh, c.svc, ds, [f \in {rel.fk} |-> d["id"]],
                        c.depth, c.source, NoProjection)
      [] rel.kind = "ids" ->
            GetMultiple(st, fresh, c.svc, ds, [f \in {"_id"} |-> GetIdInQuery(d[rel.fk])],
                        c.depth, c.source, NoProjection)
      [] rel.kind = "children" ->
            Emb([i \in 1 .. Len(d[c.field].v) |->
                    AddRelatedEmbedded(st, fresh, c.svc, d[c.field].v[i], ds,
                                       c.depth, c.source, Doc(d))])

\* The nested calls a hook makes on document d.
CallsOn(svc, d, depth, source) ==
    { c \in AddRelatedDocuments(svc, depth, source, 0) : Applicable(svc, c, d) }

\* d with the result of every call stored under the call's field.
Attach(st, fresh, svc, d, ds, calls) ==
    [f \in DOMAIN d \cup { c.field : c \in calls } |->
        IF \E c \in calls : c.field = f
        THEN LET c == CHOOSE k \in calls : k.field = f
             IN  Fetch(st, fresh, c, Relation(svc, f), d, ds)
        ELSE d[f]]

\* _add_related_documents of service svc on its document d.
AddRelated(st, fresh, svc, d, ds, depth, source) ==
    Attach(st, fresh, svc, d, ds, CallsOn(svc, d, depth, source))

\* _add_recording / _add_activity / _add_related_participant: the value the
\* hook was handed as the parent is stored under the parent field.
AttachParent(svc, hydrated, depth, source, parent) ==
    IF EmbeddedParentAttached(svc, depth, source)
    THEN With(hydrated, EmbeddedParentField(svc), parent)
    ELSE hydrated

\* _add_related_documents of an embedded kind, which is also handed the
\* parent document the child was taken from.
AddRelatedEmbedded(st, fresh, svc, d, ds, depth, source, parent) ==
    AttachParent(svc, AddRelated(st, fresh, svc, d, ds, depth, source),
                 depth, source, parent)

\* The loop of GenericMongoServiceMixin.get_multiple over the documents found.
HydrateAll(st, fresh, svc, ds, depth, source, found) ==
    IF IsRaise(found) THEN found
    ELSE Emb([i \in 1 .. Len(found.v) |->
                AddRelated(st, fresh, svc, found.v[i], ds, depth, source)])

\* What the loop of an embedded kind's get_multiple hands the child's hook
\* as its parent: activity_result / recording_result, the parent of the
\* iteration without its list; for participant states participant_results,
\* the whole list of parents found (each already without its list of states
\* when the caller gets to see it).
HandedOn(svc, parents, i) ==
    IF svc = PARTICIPANT_STATE
    THEN Emb([k \in 1 .. Len(parents) |-> Without(parents[k], svc)])
    ELSE Doc(Without(parents[i], svc))

\* The loop of an embedded kind's get_multiple over the parents found: the
\* children the projection left in each parent, each with its parent.
ChildrenOf(st, fresh, svc, ds, depth, source, parents) ==
    IF IsRaise(parents) THEN parents
    ELSE Emb(Flatten(
           [i \in 1 .. Len(parents.v) |->
               IF Has(parents.v[i], svc)
               THEN [j \in 1 .. Len(parents.v[i][svc].v) |->
                       AddRelatedEmbedded(st, fresh, svc, parents.v[i][svc].v[j],
                           ds, depth, source, HandedOn(svc, parents.v, i))]
               ELSE << >>]))

\* The query an embedded kind's get_multiple puts to the parent collection.
ParentQuery(svc, query) ==
    [p \in { PathOf(svc, f) : f \in DOMAIN query } |-> query[PathField(p)]]

\* get_multiple: GenericMongoServiceMixin.get_multiple, or for an embedded
\* kind the query on the parent collection with an $elemMatch projection
\* built from the caller's query.
GetMultiple(st, fresh, svc, ds, query, depth, source, projection) ==
    IF svc \in EmbeddedKinds
    THEN ChildrenOf(st, fresh, svc, ds, depth, source,
            GetMultiple(st, fresh, ParentOf(svc), ds, ParentQuery(svc, query),
                        depth - 1, svc, EmbeddedProjection(svc, query)))
    ELSE HydrateAll(st, fresh, svc, ds, depth, source,
            GetDocuments(st, svc, ds, query, projection))

\* The end of GenericMongoServiceMixin.get_single_dict on what get_document
\* returned.
HydrateOne(st, fresh, svc, ds, depth, source, r) ==
    IF r.t # "doc" THEN r
    ELSE Doc(AddRelated(st, fresh, svc, r.v, ds, depth, source))

\* The end of an embedded kind's get_single_dict on the parents found.
FirstChild(st, fresh, svc, id, ds, depth, source, parents) ==
    IF Len(parents.v) = 0 \/ Len(parents.v[1][svc].v) = 0
    THEN NotFound(id)
    ELSE Doc(AddRelatedEmbedded(st, fresh, svc, parents.v[1][svc].v[1],
                ds, depth, source, Doc(Without(parents.v[1], svc))))

\* The lookup of an embedded document by its id, oid being ObjectId(id).
GetEmbedded(st, fresh, svc, id, oid, ds, depth, source) ==
    FirstChild(st, fresh, svc, id, ds, depth, source,
        GetMultiple(st, fresh, ParentOf(svc), ds, [p \in { PathOf(svc, "id") } |-> oid],
                    depth - 1, svc, EmbeddedProjection(svc, [f \in {"id"} |-> oid])))

\* get_single_dict: GenericMongoServiceMixin.get_single_dict, or for an
\* embedded kind the lookup of the child inside its parent.
GetSingleDict(st, fresh, svc, id, ds, depth, source) ==
    IF svc \in EmbeddedKinds
    THEN IF ~ValidObjectId(id) THEN Raise("InvalidId")
         ELSE GetEmbedded(st, fresh, svc, id, ObjectId(id, fresh), ds, depth, source)
    ELSE HydrateOne(st, fresh, svc, ds, depth, source, GetDocument(st, fresh, id, svc, ds))

(***************************************************************************)
(* GenericMongoServiceMixin: create, update, delete.  (No modelled         *)
(* document has a date field, so the date normalisation changes nothing.)  *)
(***************************************************************************)
\* get_single with default depth and source, as the writes use it.
GetSingle(st, fresh, svc, id, ds) == GetSingleDict(st, fresh, svc, id, ds, 0, "")

\* A write's outcome followed by a get_single of the document written.
ThenGet(written, svc, id, ds) ==
    IF IsRaise(written.out) THEN written
    ELSE Outcome(written.st, written.nid,
                 GetSingle(written.st, written.nid, svc, id, ds))

\* create: the id create_document returned is read back.
CreatedThenGet(created, svc, ds) == ThenGet(created, svc, created.out, ds)

Create(st, nid, svc, object_in, ds) ==
    CreatedThenGet(CreateDocumentFromDict(st, nid, object_in, svc, ds), svc, ds)

\* update, get_response being what get_single returned for the id.
UpdateFound(st, nid, svc, id, updated_object, ds, get_response) ==
    IF get_response.t # "doc" THEN Outcome(st, nid, get_response)
    ELSE ThenGet(UpdateDocumentWithDict(st, nid, svc, id, updated_object, ds), svc, id, ds)

Update(st, nid, svc, id, updated_object, ds) ==
    UpdateFound(st, nid, svc, id, updated_object, ds, GetSingle(st, nid, svc, id, ds))

\* A delete_document outcome turned into the return value of delete.
Deleted(deleted, existing_document) ==
    IF IsRaise(deleted.out) THEN deleted
    ELSE Outcome(deleted.st, deleted.nid, existing_document)

\* The existing document is compared with None, which get_single never
\* returns; a NotFoundByIdModel goes on to delete_document.
DeleteFound(st, nid, svc, ds, existing_document) ==
    IF IsRaise(existing_document) THEN Outcome(st, nid, existing_document)
    ELSE Deleted(DeleteDocument(st, nid, existing_document, svc, ds), existing_document)

Delete(st, nid, svc, id, ds) ==
    DeleteFound(st, nid, svc, ds, GetSingle(st, nid, svc, id, ds))

(***************************************************************************)
(* Services.                                                               *)
(***************************************************************************)
\* The first of the given foreign-key checks that fails, in order: each
\* check is <<service, id, message>>; the lookup is made (and may raise)
\* even when the id is None, but only a non-null id can be rejected.
RECURSIVE CheckRelated(_, _, _, _)

\* One check, found being what get_single returned for its id.
CheckOne(st, fresh, checks, ds, found) ==
    IF IsRaise(found) THEN found
    ELSE IF Head(checks)[2] # Null /\ found.t # "doc" THEN Errors(Head(checks)[3])
    ELSE CheckRelated(st, fresh, Tail(checks), ds)

CheckRelated(st, fresh, checks, ds) ==
    IF checks = << >> THEN Null
    ELSE CheckOne(st, fresh, checks, ds,
                  GetSingle(st, fresh, Head(checks)[1], Head(checks)[2], ds))

\* A save whose related-entity checks ended with `failed` and whose write,
\* were it made, has the outcome `saved`.
Checked(st, nid, failed, saved) ==
    IF failed # Null THEN Outcome(st, nid, failed) ELSE saved

\* RegisteredDataServiceMongoDB
SaveRegisteredDataOp(st, nid, registered_data, ds) ==
    Create(st, nid, REGISTERED_DATA, registered_data, ds)

UpdateRegisteredDataOp(st, nid, id, registered_data, ds) ==
    Update(st, nid, REGISTERED_DATA, id, registered_data, ds)

DeleteRegisteredDataOp(st, nid, id, ds) == Delete(st, nid, REGISTERED_DATA, id, ds)

\* RegisteredChannelServiceMongoDB.save_registered_channel
SaveRegisteredChannelOp(st, nid, registered_channel, ds) ==
    Checked(st, nid,
            CheckRelated(st, nid,
                << <<CHANNEL, registered_channel["channel_id"],
                     "given channel does not exist">>,
                   <<REGISTERED_DATA, registered_channel["registered_data_id"],
                     "given registered data does not exist">> >>, ds),
            Create(st, nid, REGISTERED_CHANNEL, registered_channel, ds))

\* ActivityServiceMongoDB
SaveActivityOp(st, nid, activity, ds) == Create(st, nid, ACTIVITY, activity, ds)

UpdateActivityOp(st, nid, id, activity, ds) ==
    Update(st, nid, ACTIVITY, id, activity, ds)

\* The embedded list of a parent document (None and absent count as empty).
ChildrenIn(parent, svc) ==
    IF Has(parent, svc) /\ parent[svc] # Null THEN parent[svc].v ELSE << >>

\* The value add_activity_execution returns after the parent's update.
Added(updated, child) ==
    IF IsRaise(updated.out) THEN updated
    ELSE Outcome(updated.st, updated.nid, Doc(child))

\* The child is appended to the list of the parent that was found and the
\* parent is replaced; a NotFoundByIdModel has no such list.
AddToParent(st, nid, svc, child, parentFk, ds, parent) ==
    IF IsRaise(parent) THEN Outcome(st, nid, parent)
    ELSE IF parent.t # "doc" THEN Outcome(st, nid, Raise("AttributeError"))
    ELSE Added(Update(st, nid, ParentOf(svc), child[parentFk],
                      With(parent.v, svc, Emb(Append(ChildrenIn(parent.v, svc), child))),
                      ds),
               child)

\* ActivityServiceMongoDB.add_activity_execution (and the same method of the
\* recording service for observable informations): the child gets a fresh
\* id, is appended to the parent's list, and the parent is replaced.
AddEmbedded(st, nid, svc, child_in, parentFk, ds) ==
    AddToParent(st, nid + 1, svc, With(child_in, "id", StrOfId(Oid(nid))), parentFk, ds,
                GetSingle(st, nid + 1, ParentOf(svc), child_in[parentFk], ds))

\* ActivityExecutionServiceMongoDB.save_activity_execution
SaveActivityExecutionOp(st, nid, activity_execution, ds) ==
    Checked(st, nid,
            CheckRelated(st, nid,
                << <<ACTIVITY, activity_execution["activity_id"],
                     "given activity does not exist">>,
                   <<ARRANGEMENT, activity_execution["arrangement_id"],
                     "given arrangement does not exist">> >>, ds),
            AddEmbedded(st, nid, ACTIVITY_EXECUTION, activity_execution, "activity_id", ds))

\* The id of what save_activity_execution returned (None on an output that
\* only carries errors).
IdOf(out) == IF out.t = "doc" THEN out.v["id"] ELSE Null

\* The activity executions a ScenarioIn asks to create.
ExecutionsOf(scenario) ==
    IF Has(scenario, ACTIVITY_EXECUTION) /\ scenario[ACTIVITY_EXECUTION] # Null
    THEN scenario[ACTIVITY_EXECUTION].v ELSE << >>

\* [activity_executions_ids] if len(activity_executions_ids) != 0 else []
BranchOfIds(saved) ==
    IF saved = << >> THEN Lst(<< >>)
    ELSE Lst(<< Lst([i \in 1 .. Len(saved) |-> IdOf(saved[i])]) >>)

\* The list comprehension of save_scenario: every activity execution is
\* saved in turn; the outcome holds the list of what the saves returned.
RECURSIVE SaveExecutions(_, _, _, _)
SavedRest(out, rest) ==
    IF IsRaise(rest.out) THEN rest
    ELSE Outcome(rest.st, rest.nid, Lst(<<out>> \o rest.out.v))

SavedFirst(aes, ds, first) ==
    IF IsRaise(first.out) THEN first
    ELSE SavedRest(first.out, SaveExecutions(first.st, first.nid, Tail(aes), ds))

SaveExecutions(st, nid, aes, ds) ==
    IF aes = << >> THEN Outcome(st, nid, Lst(<< >>))
    ELSE SavedFirst(aes, ds, SaveActivityExecutionOp(st, nid, Head(aes), ds))

\* The ScenarioOut built from the dict that was inserted (its ids converted
\* in place, its activity_executions set to the list of the executions
\* created); the id create_document_from_dict returned is not used.
ScenarioCreated(created, scenario_dict, activity_executions) ==
    IF IsRaise(created.out) THEN created
    ELSE Outcome(created.st, created.nid,
                 Doc(With(With(FixInputIds(scenario_dict), "id", Null),
                          ACTIVITY_EXECUTION, Lst(<< activity_executions >>))))

\* save_scenario after the activity executions were saved: only their ids
\* are stored.
CreateScenario(scenario, ds, saved) ==
    IF IsRaise(saved.out) THEN saved
    ELSE ScenarioCreated(
            CreateDocumentFromDict(saved.st, saved.nid,
                With(scenario, ACTIVITY_EXECUTION, BranchOfIds(saved.out.v)),
                SCENARIO, ds),
            With(scenario, ACTIVITY_EXECUTION, BranchOfIds(saved.out.v)),
            saved.out)

\* ScenarioServiceMongoDB.save_scenario
SaveScenarioOp(st, nid, scenario, ds) ==
    Checked(st, nid,
            CheckRelated(st, nid,
                << <<EXPERIMENT, scenario["experiment_id"],
                     "given experiment does not exist">> >>, ds),
            CreateScenario(scenario, ds,
                           SaveExecutions(st, nid, ExecutionsOf(scenario), ds)))

\* What a caller that ignores the result of a step returns after it.
Returning(step, out) ==
    IF IsRaise(step.out) THEN step ELSE Outcome(step.st, step.nid, out)

(***************************************************************************)
(* Time series.  A series is stored as one record per signal; every record *)
(* carries the metadata of its series (written "metadata.<field>" here).   *)
(***************************************************************************)
Meta(field) == "metadata." \o field

\* The fields of TimeSeriesIn besides signal_values.
TsMetadataFields == { "type", "observable_information_id", "measure_id" }

\* MongoApiService._signal_to_dict
SignalToDict(signal, metadata) ==
    [f \in { "timestamp", "value" } \cup { Meta(k) : k \in DOMAIN metadata } |->
        IF f \in { "timestamp", "value" } THEN signal[f]
        ELSE metadata[CHOOSE k \in DOMAIN metadata : Meta(k) = f]]

\* MongoApiService._get_time_series_metadata
GetTimeSeriesMetadata(time_series_in, time_series_id) ==
    With(FixInputIds(Without(time_series_in, "signal_values")), "id", time_series_id)

\* MongoApiService._time_series_into_documents
TimeSeriesIntoDocuments(time_series_in, time_series_id) ==
    [i \in 1 .. Len(time_series_in["signal_values"].v) |->
        SignalToDict(time_series_in["signal_values"].v[i],
                     GetTimeSeriesMetadata(time_series_in, time_series_id))]

\* MongoApiService.create_time_series: a fresh ObjectId becomes the id of
\* the series; insert_many refuses an empty list of documents.
CreateTimeSeries(st, nid, time_series_in, ds) ==
    IF FixRaises(Without(time_series_in, "signal_values"))
    THEN Outcome(st, nid + 1, Raise("InvalidId"))
    ELSE IF Len(time_series_in["signal_values"].v) = 0
    THEN Outcome(st, nid + 1, Raise("TypeError"))
    ELSE Outcome(SetRows(st, ds, TIME_SERIES,
                         Rows(st, ds, TIME_SERIES)
                           \o TimeSeriesIntoDocuments(time_series_in, Oid(nid))),
                 nid + 1, Oid(nid))

\* The records of the series ts_id, in stored order.
RECURSIVE RecordsOf(_, _)
RecordsOf(rows, ts_id) ==
    IF rows = << >> THEN << >>
    ELSE IF Head(rows)[Meta("id")] = ts_id
         THEN << Head(rows) >> \o RecordsOf(Tail(rows), ts_id)
         ELSE RecordsOf(Tail(rows), ts_id)

RECURSIVE RecordsNotOf(_, _)
RecordsNotOf(rows, ts_id) ==
    IF rows = << >> THEN << >>
    ELSE IF Head(rows)[Meta("id")] # ts_id
         THEN << Head(rows) >> \o RecordsNotOf(Tail(rows), ts_id)
         ELSE RecordsNotOf(Tail(rows), ts_id)

\* MongoApiService._time_series_documents_to_dict
TimeSeriesDocumentsToDict(ts_documents) ==
    FixOutputIds(
        [f \in { "signal_values" }
               \cup { k \in TsMetadataFields \cup { "id" } : Has(ts_documents[1], Meta(k)) } |->
            IF f = "signal_values"
            THEN Lst([i \in 1 .. Len(ts_documents) |->
                        [timestamp |-> ts_documents[i]["timestamp"],
                         value |-> ts_documents[i]["value"]]])
            ELSE ts_documents[1][Meta(f)]])

\* MongoApiService.delete_time_series: delete_many, run on the collection
\* without a session.
DeleteTimeSeries(st, nid, time_series_id, ds) ==
    IF ~ValidObjectId(time_series_id) THEN Outcome(st, nid, Raise("InvalidId"))
    ELSE Outcome(SetRows(st, ds, TIME_SERIES,
                         RecordsNotOf(Rows(st, ds, TIME_SERIES),
                                      ObjectId(time_series_id, nid))),
                 nid, Null)

\* MongoApiService._replace_ts.  The session and its transaction are opened,
\* but delete_many and insert_many are called without the session, so each
\* takes effect on its own: what the delete removed stays removed when
\* building or inserting the new records raises.
Recreated(deleted, new_time_series, ds) ==
    IF IsRaise(deleted.out) THEN deleted
    ELSE CreateTimeSeries(deleted.st, deleted.nid, new_time_series, ds)

ReplaceTs(st, nid, new_time_series, time_series_id, ds) ==
    Recreated(DeleteTimeSeries(st, nid, time_series_id, ds), new_time_series, ds)

\* MongoApiService.get_time_series (without value bounds)
MongoGetTimeSeries(st, fresh, ts_id, ds) ==
    IF RecordsOf(Rows(st, ds, TIME_SERIES), ObjectId(ts_id, fresh)) = << >>
    THEN NotFound(ts_id)
    ELSE Doc(TimeSeriesDocumentsToDict(
                RecordsOf(Rows(st, ds, TIME_SERIES), ObjectId(ts_id, fresh))))

\* update_time_series_properties once the existing series was read: a
\* NotFoundByIdModel cannot be subscripted.
ReplaceExisting(st, nid, new_time_series, time_series_id, ds, existing_ts) ==
    IF existing_ts.t # "doc" THEN Outcome(st, nid, Raise("TypeError"))
    ELSE Returning(
            ReplaceTs(st, nid,
                      With(With(new_time_series, "observable_information_id",
                                existing_ts.v["observable_information_id"]),
                           "measure_id", existing_ts.v["measure_id"]),
                      time_series_id, ds),
            Doc(With(With(new_time_series, "observable_information_id",
                          existing_ts.v["observable_information_id"]),
                     "measure_id", existing_ts.v["measure_id"])))

\* MongoApiService.update_time_series_properties
UpdateTimeSeriesProperties(st, nid, new_time_series, time_series_id, ds) ==
    IF ~ValidObjectId(time_series_id) THEN Outcome(st, nid, Raise("InvalidId"))
    ELSE ReplaceExisting(st, nid, new_time_series, time_series_id, ds,
                         MongoGetTimeSeries(st, nid, time_series_id, ds))

\* The rest of get_time_series on what the store returned: the hook runs
\* on it whatever it is, and with depth > 0 it subscripts it.
TimeSeriesFound(st, fresh, ds, depth, source, time_series) ==
    IF time_series.t # "doc"
    THEN (IF depth > 0 THEN Raise("TypeError") ELSE time_series)
    ELSE Doc(AddRelated(st, fresh, TIME_SERIES, time_series.v, ds, depth, source))

\* TimeSeriesServiceMongoDB.get_time_series: a malformed id is caught and
\* mapped to NotFound.
GetTimeSeriesOp(st, fresh, id, ds, depth, source) ==
    IF ~ValidObjectId(id) THEN NotFound(id)
    ELSE TimeSeriesFound(st, fresh, ds, depth, source,
                         MongoGetTimeSeries(st, fresh, id, ds))

(***************************************************************************)
(* Initial state (no request running, empty databases) and the             *)
(* specification of the hydration call graph.                              *)
(***************************************************************************)
\* The record kept of the last service operation.
Op(op, ds, id, arg, depth) ==
    [op |-> op, ds |-> ds, id |-> id, arg |-> arg, depth |-> depth]

\* The requests that may run concurrently, and a request not yet started.
Requests == { "A", "B" }
Idle == [pc |-> "idle"]

InitStore ==
    /\ store = EmptyStore
    /\ nextId = 1
    /\ result = Null
    /\ last = Op("", "", Null, << >>, 0)
    /\ requests = [r \in Requests |-> Idle]

Init == InitTrav /\ InitStore

NextTrav ==
    \/ \E svc \in Collections, depth \in Depths : Request(svc, depth)
    \/ Descend
    \/ Return

SpecTrav == Init /\ [][NextTrav]_vars

(***************************************************************************)
(* Specification Spec: registered data, registered channels, activities    *)
(* with their embedded executions, scenarios and time-series reads.        *)
(***************************************************************************)
\* Largest depth of the reads issued against stored documents.
MaxReadDepth == 1

ReadDepths == 0 .. MaxReadDepth

\* Property values, and the id literals requests carry: the hex string of
\* id n in lower or upper case (n = 0 is an id no document ever gets), a
\* string that is no id, and None.
Values == { Val(1), Val(2) }
IdArgs == { IdStr(n, FALSE) : n \in 0 .. MaxIds } \cup { BadStr }
FkArgs == { IdStr(n, up) : n \in 0 .. 1, up \in BOOLEAN } \cup { BadStr, Null }

\* A service operation was carried out with outcome o.
Do(op, ds, id, arg, depth, o) ==
    /\ store' = o.st
    /\ nextId' = o.nid
    /\ result' = o.out
    /\ last' = Op(op, ds, id, arg, depth)
    /\ UNCHANGED <<travVars, requests>>

IdsLeft == nextId <= MaxIds

save_registered_data(ds, v) ==
    LET x == [source |-> v] IN
    IdsLeft /\ Do("save_registered_data", ds, Null, x, 0, SaveRegisteredDataOp(store, nextId, x, ds))

get_registered_data(ds, id, depth) ==
    Do("get_registered_data", ds, id, << >>, depth,
       Outcome(store, nextId, GetSingleDict(store, nextId, REGISTERED_DATA, id, ds, depth, "")))

update_registered_data(ds, id, v) ==
    LET x == [source |-> v] IN
    Do("update_registered_data", ds, id, x, 0, UpdateRegisteredDataOp(store, nextId, id, x, ds))

delete_registered_data(ds, id) ==
    Do("delete_registered_data", ds, id, << >>, 0, DeleteRegisteredDataOp(store, nextId, id, ds))

save_registered_channel(ds, ch, rd) ==
    LET x == [channel_id |-> ch, registered_data_id |-> rd] IN
    IdsLeft /\ Do("save_registered_channel", ds, Null, x, 0,
                  SaveRegisteredChannelOp(store, nextId, x, ds))

save_activity(ds, v) ==
    LET x == [activity |-> v] IN
    IdsLeft /\ Do("save_activity", ds, Null, x, 0, SaveActivityOp(store, nextId, x, ds))

update_activity(ds, id, v) ==
    LET x == [activity |-> v] IN
    Do("update_activity", ds, id, x, 0, UpdateActivityOp(store, nextId, id, x, ds))

save_activity_execution(ds, act, arr) ==
    LET x == [activity_id |-> act, arrangement_id |-> arr] IN
    IdsLeft /\ Do("save_activity_execution", ds, Null, x, 0,
                  SaveActivityExecutionOp(store, nextId, x, ds))

get_activity_execution(ds, id) ==
    Do("get_activity_execution", ds, id, << >>, 0,
       Outcome(store, nextId, GetSingleDict(store, nextId, ACTIVITY_EXECUTION, id, ds, 0, "")))

save_scenario(ds, exp) ==
    LET x == [experiment_id |-> exp] IN
    IdsLeft /\ Do("save_scenario", ds, Null, x, 0, SaveScenarioOp(store, nextId, x, ds))

get_time_series(ds, id, depth) ==
    Do("get_time_series", ds, id, << >>, depth,
       Outcome(store, nextId, GetTimeSeriesOp(store, nextId, id, ds, depth, "")))

Next ==
    \/ \E ds \in Datasets, v \in Values : save_registered_data(ds, v)
    \/ \E ds \in Datasets, id \in IdArgs, depth \in ReadDepths : get_registered_data(ds, id, depth)
    \/ \E ds \in Datasets, id \in IdArgs, v \in Values : update_registered_data(ds, id, v)
    \/ \E ds \in Datasets, id \in IdArgs : delete_registered_data(ds, id)
    \/ \E ds \in Datasets, ch \in { Null, IdStr(0, FALSE) }, rd \in FkArgs :
          save_registered_channel(ds, ch, rd)
    \/ \E ds \in Datasets, v \in Values : save_activity(ds, v)
    \/ \E ds \in Datasets, id \in IdArgs, v \in Values : update_activity(ds, id, v)
    \/ \E ds \in Datasets, act \in FkArgs, arr \in { Null, IdStr(0, FALSE) } :
          save_activity_execution(ds, act, arr)
    \/ \E ds \in Datasets, id \in IdArgs : get_activity_execution(ds, id)
    \/ \E ds \in Datasets, exp \in { Null, IdStr(0, FALSE) } : save_scenario(ds, exp)
    \/ \E ds \in Datasets, id \in IdArgs, depth \in ReadDepths : get_time_series(ds, id, depth)

Spec == Init /\ [][Next]_vars

(***************************************************************************)
(* Claims about the generic reads and writes (checked under Spec).         *)
(***************************************************************************)
\* What the store holds, read off the stored documents directly.
Stored(st, ds, c, id) ==
    id.t = "str" /\ \E i \in 1 .. Len(Rows(st, ds, c)) : Rows(st, ds, c)[i]["_id"] = Oid(id.v)

StoredChild(st, ds, kind, id) ==
    /\ id.t = "str"
    /\ \E i \in 1 .. Len(Rows(st, ds, ParentOf(kind))) :
          LET parent == Rows(st, ds, ParentOf(kind))[i] IN
          /\ Has(parent, kind)
          /\ \E j \in 1 .. Len(parent[kind].v) : parent[kind].v[j]["id"] = Oid(id.v)

RowOf(st, ds, c, id) == Rows(st, ds, c)[IndexOfId(Rows(st, ds, c), Oid(id.v))]

\* Every document other than the one with _id oid of collection c is the
\* same, and in the same place, in both stores.
OthersUnchanged(st1, st2, ds, c, oid) ==
    \A d \in Datasets, k \in StoredCollections :
        IF d = ds /\ k = c
        THEN SelectSeq(Rows(st1, d, k), LAMBDA r : r["_id"] # oid)
                = SelectSeq(Rows(st2, d, k), LAMBDA r : r["_id"] # oid)
        ELSE Rows(st1, d, k) = Rows(st2, d, k)

\* The service (collection) an operation name addresses.
ServiceOf(op) ==
    CASE op \in { "save_registered_data", "get_registered_data",
                  "update_registered_data", "delete_registered_data" } -> REGISTERED_DATA
      [] op = "save_registered_channel" -> REGISTERED_CHANNEL
      [] op \in { "save_activity", "update_activity" } -> ACTIVITY
      [] op \in { "save_activity_execution", "get_activity_execution" } -> ACTIVITY_EXECUTION
      [] op = "save_scenario" -> SCENARIO
      [] op = "get_time_series" -> TIME_SERIES
      [] OTHER -> ""

GetOps == { "get_registered_data", "get_activity_execution", "get_time_series" }
UpdateOps == { "update_registered_data", "update_activity" }
SaveOps == { "save_registered_data", "save_registered_channel", "save_activity",
             "save_activity_execution", "save_scenario" }

\* The id resolves to no entity of the operation's kind.
Unresolved(st, ds, svc, id) ==
    CASE svc \in EmbeddedKinds -> ~StoredChild(st, ds, svc, id)
      [] svc = TIME_SERIES ->
            ~(id.t = "str" /\ \E i \in 1 .. Len(Rows(st, ds, svc)) :
                                Rows(st, ds, svc)[i]["metadata.id"] = Oid(id.v))
      [] OTHER -> ~Stored(st, ds, svc, id)

\* C6: a get by id never modifies the store, and with an id that resolves
\* to no document, or with a malformed id literal, it returns the NotFound
\* sentinel for that id at every depth (it does not raise).
C6_GetReturnsNotFound ==
    [][ last'.op \in GetOps =>
          /\ store' = store
          /\ Unresolved(store, last'.ds, ServiceOf(last'.op), last'.id)
                => result' = NotFound(last'.id) ]_vars

\* C7: delete on an id that resolves returns the entity as it was stored
\* just before, after which the id resolves to nothing and every other
\* document is unchanged; delete on a (well-formed) id that does not
\* resolve returns the NotFound sentinel and leaves the store unchanged.
C7_DeleteReturnsPriorState ==
    [][ (last'.op = "delete_registered_data" /\ last'.id.t = "str") =>
          LET ds == last'.ds
              id == last'.id
          IN  IF Stored(store, ds, REGISTERED_DATA, id)
              THEN /\ result' = Doc(UpdateMongoOutputId(RowOf(store, ds, REGISTERED_DATA, id)))
                   /\ GetSingle(store', nextId', REGISTERED_DATA, id, ds) = NotFound(id)
                   /\ OthersUnchanged(store, store', ds, REGISTERED_DATA, Oid(id.v))
              ELSE /\ result' = NotFound(id)
                   /\ store' = store ]_vars

Carriers(st, ds, id) ==
    Cardinality({ c \in StoredCollections : Stored(st, ds, c, id) })
    + Cardinality({ k \in EmbeddedKinds : StoredChild(st, ds, k, id) })

\* C9: a create that is accepted returns an entity with an id that exactly
\* one entity of the dataset carries, and a following get of that id
\* returns every supplied field with the value that was supplied (foreign
\* ids as the same strings).
C9_CreateRoundTrip ==
    (last.op \in SaveOps /\ result.t = "doc") =>
        /\ Has(result.v, "id")
        /\ result.v["id"].t = "str"
        /\ Carriers(store, last.ds, result.v["id"]) = 1
        /\ LET got == GetSingle(store, nextId, ServiceOf(last.op), result.v["id"], last.ds)
           IN  /\ got.t = "doc"
               /\ \A f \in DOMAIN last.arg : Has(got.v, f) /\ got.v[f] = last.arg[f]

(***************************************************************************)
(* Modalities, recordings and the observable informations embedded in      *)
(* recordings.                                                             *)
(***************************************************************************)
\* ModalityServiceMongoDB.save_modality
SaveModalityOp(st, nid, modality, ds) == Create(st, nid, MODALITY, modality, ds)

\* RecordingServiceMongoDB.save_recording
SaveRecordingOp(st, nid, recording, ds) ==
    Checked(st, nid,
            CheckRelated(st, nid,
                << <<PARTICIPATION, recording["participation_id"],
                     "given participation does not exist">>,
                   <<REGISTERED_CHANNEL, recording["registered_channel_id"],
                     "given registered channel does not exist">> >>, ds),
            Create(st, nid, RECORDING, recording, ds))

\* The recording of a new observable information has to be found, whether
\* or not recording_id is None.
RecordingChecked(st, nid, related_recording, saved) ==
    IF IsRaise(related_recording) THEN Outcome(st, nid, related_recording)
    ELSE IF related_recording.t # "doc"
         THEN Outcome(st, nid, Errors("given recording does not exist"))
         ELSE saved

\* ObservableInformationServiceMongoDB.save_observable_information
SaveObservableInformationOp(st, nid, observable_information, ds) ==
    RecordingChecked(st, nid,
        GetSingle(st, nid, RECORDING, observable_information["recording_id"], ds),
        Checked(st, nid,
            CheckRelated(st, nid,
                << <<MODALITY, observable_information["modality_id"],
                     "given modality does not exist">>,
                   <<LIFE_ACTIVITY, observable_information["life_activity_id"],
                     "given life activity does not exist">> >>, ds),
            AddEmbedded(st, nid, OBSERVABLE_INFORMATION, observable_information,
                        "recording_id", ds)))

\* An index helper that looks at the position only: the first child.
ChildIndexByPosition(children, oid) ==
    IF Len(children) > 0 THEN 1 ELSE 0

\* RecordingServiceMongoDB._get_observable_information_index_from_recording:
\* index of the first child with the given id, 0 for None.
ChildIndex(children, oid) ==
    IF \E i \in 1 .. Len(children) : ObjectId(children[i]["id"], 0) = oid
    THEN CHOOSE i \in 1 .. Len(children) :
            /\ ObjectId(children[i]["id"], 0) = oid
            /\ \A j \in 1 .. i - 1 : ObjectId(children[j]["id"], 0) # oid
    ELSE 0

\* The end of remove_observable_information, on the recording that holds the
\* child: the child is taken out of the list and the recording replaced.
RemoveFromParent(st, nid, svc, child, ds, parentId, parent) ==
    IF IsRaise(parent) THEN Outcome(st, nid, parent)
    ELSE IF parent.t # "doc" THEN Outcome(st, nid, NotFound(child["id"]))
    ELSE IF ChildIndex(parent.v[svc].v, ObjectId(child["id"], nid)) = 0
         THEN Outcome(st, nid, NotFound(child["id"]))
         ELSE Added(Update(st, nid, ParentOf(svc), parentId,
                           With(parent.v, svc,
                                Emb(RemoveAt(parent.v[svc].v,
                                       ChildIndex(parent.v[svc].v,
                                                  ObjectId(child["id"], nid))))),
                           ds),
                    child)

\* remove_observable_information after looking the child up: its stored
\* recording_id names the recording to take it from.
RemoveOld(st, nid, svc, child, parentFk, ds, old) ==
    IF IsRaise(old) THEN Outcome(st, nid, old)
    ELSE IF old.t # "doc" THEN Outcome(st, nid, Raise("AttributeError"))
    ELSE RemoveFromParent(st, nid, svc, child, ds, old.v[parentFk],
                          GetSingle(st, nid, ParentOf(svc), old.v[parentFk], ds))

\* RecordingServiceMongoDB.remove_observable_information
RemoveEmbedded(st, nid, svc, child, parentFk, ds) ==
    RemoveOld(st, nid, svc, child, parentFk, ds,
              GetSingle(st, nid, svc, child["id"], ds))

\* The end of update_observable_information, on the recording the new
\* version names: the new version is appended to the recording's list,
\* which is subscripted without a check, and the recording is replaced.
AppendToFound(st, nid, svc, id, child, parentFk, ds, recording) ==
    IF IsRaise(recording) THEN Outcome(st, nid, recording)
    ELSE IF recording.t # "doc" THEN Outcome(st, nid, NotFound(id))
    ELSE IF ~Has(recording.v, svc) THEN Outcome(st, nid, Raise("KeyError"))
    ELSE Added(Update(st, nid, ParentOf(svc), child[parentFk],
                      With(recording.v, svc, Emb(Append(recording.v[svc].v, child))),
                      ds),
               child)

\* update_observable_information after the removal, whose return value is
\* not looked at.
AfterRemoval(removed, svc, id, child, parentFk, ds) ==
    IF IsRaise(removed.out) THEN removed
    ELSE AppendToFound(removed.st, removed.nid, svc, id, child, parentFk, ds,
            GetSingle(removed.st, removed.nid, ParentOf(svc), child[parentFk], ds))

\* RecordingServiceMongoDB.update_observable_information
UpdateEmbedded(st, nid, svc, id, child, parentFk, ds) ==
    AfterRemoval(RemoveEmbedded(st, nid, svc, child, parentFk, ds),
                 svc, id, child, parentFk, ds)

\* setattr of every field of the input on the existing output model; a
\* NotFoundByIdModel has no such fields.
SetRelationships(st, nid, id, relationships, ds, existing) ==
    IF IsRaise(existing) THEN Outcome(st, nid, existing)
    ELSE IF existing.t # "doc" THEN Outcome(st, nid, Raise("ValueError"))
    ELSE UpdateEmbedded(st, nid, OBSERVABLE_INFORMATION, id,
            [f \in DOMAIN existing.v \cup DOMAIN relationships |->
                IF f \in DOMAIN relationships THEN relationships[f] ELSE existing.v[f]],
            "recording_id", ds)

\* ObservableInformationServiceMongoDB.update_observable_information_relationships
UpdateObservableInformationRelationshipsOp(st, nid, id, observable_information, ds) ==
    SetRelationships(st, nid, id, observable_information, ds,
                     GetSingle(st, nid, OBSERVABLE_INFORMATION, id, ds))

(***************************************************************************)
(* Specification SpecRec: modalities, recordings, observable informations. *)
(***************************************************************************)
\* Number of ObjectIds bson generates under SpecRec.
MaxRecIds == 4

RecIdsLeft == nextId <= MaxRecIds

\* The id literals SpecRec's requests carry: ids of recordings, of
\* modalities and of observable informations (id 0 is never assigned).
RecordingArgs == { Null, IdStr(1, FALSE), IdStr(2, FALSE) }
ModalityArgs == { Null, BadStr, IdStr(0, FALSE), IdStr(1, FALSE) }
ObservableInformationArgs == { IdStr(0, FALSE), IdStr(2, FALSE), IdStr(3, FALSE) }

save_modality(ds, v) ==
    LET x == [modality |-> v] IN
    RecIdsLeft /\ Do("save_modality", ds, Null, x, 0, SaveModalityOp(store, nextId, x, ds))

save_recording(ds, part, rc) ==
    LET x == [participation_id |-> part, registered_channel_id |-> rc] IN
    RecIdsLeft /\ Do("save_recording", ds, Null, x, 0, SaveRecordingOp(store, nextId, x, ds))

save_observable_information(ds, rec, mod) ==
    LET x == [recording_id |-> rec, modality_id |-> mod, life_activity_id |-> Null] IN
    RecIdsLeft /\ Do("save_observable_information", ds, Null, x, 0,
                     SaveObservableInformationOp(store, nextId, x, ds))

update_observable_information_relationships(ds, id, rec, mod) ==
    LET x == [recording_id |-> rec, modality_id |-> mod, life_activity_id |-> Null] IN
    Do("update_observable_information_relationships", ds, id, x, 0,
       UpdateObservableInformationRelationshipsOp(store, nextId, id, x, ds))

get_modality(ds, id, depth) ==
    Do("get_modality", ds, id, << >>, depth,
       Outcome(store, nextId, GetSingleDict(store, nextId, MODALITY, id, ds, depth, "")))

\* ObservableInformationServiceMongoDB.get_multiple with a filter on the
\* modality.
get_multiple(ds, mod) ==
    LET x == [modality_id |-> mod] IN
    Do("get_multiple", ds, Null, x, 0,
       Outcome(store, nextId,
               GetMultiple(store, nextId, OBSERVABLE_INFORMATION, ds, x, 0, "", NoProjection)))

NextRec ==
    \/ \E ds \in Datasets : save_modality(ds, Val(1))
    \/ \E ds \in Datasets, rc \in { Null, IdStr(0, FALSE) } : save_recording(ds, Null, rc)
    \/ \E ds \in Datasets, rec \in RecordingArgs, mod \in ModalityArgs :
          save_observable_information(ds, rec, mod)
    \/ \E ds \in Datasets, id \in ObservableInformationArgs,
          rec \in RecordingArgs, mod \in ModalityArgs :
          update_observable_information_relationships(ds, id, rec, mod)
    \/ \E ds \in Datasets, id \in ModalityArgs \ { Null }, depth \in ReadDepths :
          get_modality(ds, id, depth)
    \/ \E ds \in Datasets, mod \in ModalityArgs : get_multiple(ds, mod)

SpecRec == Init /\ [][NextRec]_vars

(***************************************************************************)
(* Claims about embedded reads and relationship writes (checked under      *)
(* SpecRec).                                                               *)
(***************************************************************************)
\* The ids, as returned strings, of the stored children of the given kind
\* whose field fk holds the stored value wanted.
MatchingChildren(st, ds, kind, fk, wanted) ==
    LET parents == Rows(st, ds, ParentOf(kind)) IN
    { StrOfId(parents[i][kind].v[j]["id"]) :
        <<i, j>> \in { p \in (1 .. Len(parents)) \X (1 .. MaxRecIds) :
                          /\ Has(parents[p[1]], kind)
                          /\ p[2] <= Len(parents[p[1]][kind].v)
                          /\ parents[p[1]][kind].v[p[2]][fk] = wanted } }

\* The ids of a returned list of documents.
IdsOf(docs) == { docs.v[i]["id"] : i \in 1 .. Len(docs.v) }

\* The stored value an id argument stands for.
StoredValue(x) == IF x.t = "str" THEN Oid(x.v) ELSE x

\* C5: a read of a modality at depth >= 1 attaches exactly the observable
\* informations whose modality_id is its id, and a get-many of observable
\* informations filtered on modality_id returns exactly the embedded
\* children that satisfy the filter, also when several of them are stored in
\* one recording.
C5_ReverseLookupExact ==
    /\ (last.op = "get_modality" /\ last.depth >= 1 /\ result.t = "doc") =>
          /\ Has(result.v, "observable_informations")
          /\ IdsOf(result.v["observable_informations"])
                = MatchingChildren(store, last.ds, OBSERVABLE_INFORMATION,
                                   "modality_id", StoredValue(last.id))
    /\ (last.op = "get_multiple" /\ result.t = "docs") =>
          IdsOf(result) = MatchingChildren(store, last.ds, OBSERVABLE_INFORMATION,
                                           "modality_id",
                                           StoredValue(last.arg["modality_id"]))

\* The kind a relationship field refers to.
ReferencedKind(fk) ==
    CASE fk = "recording_id" -> RECORDING
      [] fk = "modality_id" -> MODALITY
      [] fk = "life_activity_id" -> LIFE_ACTIVITY
      [] fk = "participation_id" -> PARTICIPATION
      [] fk = "registered_channel_id" -> REGISTERED_CHANNEL

RelationshipFields ==
    { "recording_id", "modality_id", "life_activity_id", "participation_id",
      "registered_channel_id" }

RelationshipOps ==
    { "save_recording", "save_observable_information",
      "update_observable_information_relationships" }

\* C10: when save_recording, save_observable_information or
\* update_observable_information_relationships returns success, every
\* relationship id of the document it wrote is null or is the id of a stored
\* document of the referenced kind in the same dataset (so an input with a
\* non-null id that resolves to nothing was rejected).
C10_RelationshipsResolve ==
    (last.op \in RelationshipOps /\ result.t = "doc") =>
        \A fk \in RelationshipFields \cap DOMAIN result.v :
            \/ result.v[fk] = Null
            \/ Stored(store, last.ds, ReferencedKind(fk), result.v[fk])

(***************************************************************************)
(* Claims about writes to embedded children (checked under SpecRec).       *)
(***************************************************************************)
\* The write operations of SpecRec.
RecWriteOps ==
    { "save_modality", "save_recording", "save_observable_information",
      "update_observable_information_relationships" }

\* C11: a write operation that ends with a validation error or with NotFound
\* leaves the store exactly as it was before the call.
C11_FailedWriteKeepsStore ==
    [][ (last'.op \in RecWriteOps /\ result'.t \in { "errors", "notfound" })
          => store' = store ]_vars

(***************************************************************************)
(* The three embedded kinds side by side: activity executions in           *)
(* activities, observable informations in recordings, participant states   *)
(* in participants.                                                        *)
(***************************************************************************)
\* The field of a child that names its parent.
ParentFk(svc) ==
    CASE svc = ACTIVITY_EXECUTION -> "activity_id"
      [] svc = OBSERVABLE_INFORMATION -> "recording_id"
      [] svc = PARTICIPANT_STATE -> "participant_id"

\* ParticipantServiceMongoDB.save_participant
SaveParticipantOp(st, nid, participant, ds) == Create(st, nid, PARTICIPANT, participant, ds)

\* ParticipantStateServiceMongoDB.save_participant_state, for a state without
\* appearance_ids and personality_ids (both None pass their checks).
SaveParticipantStateOp(st, nid, participant_state, ds) ==
    Checked(st, nid,
            CheckRelated(st, nid,
                << <<PARTICIPANT, participant_state["participant_id"],
                     "given participant does not exist">> >>, ds),
            AddEmbedded(st, nid, PARTICIPANT_STATE, participant_state,
                        "participant_id", ds))

\* remove_activity_execution / remove_participant_state take the parent from
\* the child handed in; remove_observable_information looks the child up
\* again and takes the parent from the stored version.
RemoveChild(st, nid, svc, child, ds) ==
    IF svc = OBSERVABLE_INFORMATION
    THEN RemoveEmbedded(st, nid, svc, child, ParentFk(svc), ds)
    ELSE RemoveFromParent(st, nid, svc, child, ds, child[ParentFk(svc)],
                          GetSingle(st, nid, ParentOf(svc), child[ParentFk(svc)], ds))

\* delete_X of an embedded kind after its get_X.
DeleteChildFound(st, nid, svc, id, ds, child) ==
    IF IsRaise(child) THEN Outcome(st, nid, child)
    ELSE IF child.t # "doc" THEN Outcome(st, nid, NotFound(id))
    ELSE RemoveChild(st, nid, svc, child.v, ds)

\* ActivityExecutionServiceMongoDB.delete_activity_execution,
\* ObservableInformationServiceMongoDB.delete_observable_information,
\* ParticipantStateServiceMongoDB.delete_participant_state
DeleteEmbeddedOp(st, nid, svc, id, ds) ==
    DeleteChildFound(st, nid, svc, id, ds, GetSingle(st, nid, svc, id, ds))

\* A list with the element at index i replaced.
ReplaceAt(children, i, child) ==
    [j \in 1 .. Len(children) |-> IF j = i THEN child ELSE children[j]]

\* The end of update_activity_execution / update_participant_state of the
\* parent's service: the child at the index found is overwritten and the
\* parent replaced.
ReplaceInParent(st, nid, svc, id, child, ds, parent) ==
    IF IsRaise(parent) THEN Outcome(st, nid, parent)
    ELSE IF parent.t # "doc" THEN Outcome(st, nid, NotFound(id))
    ELSE IF ~Has(parent.v, svc) THEN Outcome(st, nid, Raise("KeyError"))
    ELSE IF ChildIndex(parent.v[svc].v, ObjectId(id, nid)) = 0
         THEN Outcome(st, nid, NotFound(id))
         ELSE Added(Update(st, nid, ParentOf(svc), child[ParentFk(svc)],
                           With(parent.v, svc,
                                Emb(ReplaceAt(parent.v[svc].v,
                                       ChildIndex(parent.v[svc].v, ObjectId(id, nid)),
                                       child))),
                           ds),
                    child)

\* The parent's service writes the new version of a child: in place for
\* activity executions and participant states, by removal and append for
\* observable informations.
WriteChild(st, nid, svc, id, child, ds) ==
    IF svc = OBSERVABLE_INFORMATION
    THEN UpdateEmbedded(st, nid, svc, id, child, ParentFk(svc), ds)
    ELSE ReplaceInParent(st, nid, svc, id, child, ds,
                         GetSingle(st, nid, ParentOf(svc), child[ParentFk(svc)], ds))

\* update_X of an embedded kind after its get_X: the input's fields are set
\* on the existing model.  Only update_participant_state returns a
\* NotFoundByIdModel as it is; on the other two the setattr fails.
UpdateChildFound(st, nid, svc, id, fields, ds, existing) ==
    IF IsRaise(existing) THEN Outcome(st, nid, existing)
    ELSE IF existing.t # "doc"
         THEN Outcome(st, nid, IF svc = PARTICIPANT_STATE THEN existing
                               ELSE Raise("ValueError"))
         ELSE WriteChild(st, nid, svc, id,
                 [f \in DOMAIN existing.v \cup DOMAIN fields |->
                     IF f \in DOMAIN fields THEN fields[f] ELSE existing.v[f]],
                 ds)

\* ActivityExecutionServiceMongoDB.update_activity_execution,
\* ParticipantStateServiceMongoDB.update_participant_state,
\* ObservableInformationServiceMongoDB.update_observable_information_relationships
UpdateEmbeddedOp(st, nid, svc, id, fields, ds) ==
    UpdateChildFound(st, nid, svc, id, fields, ds, GetSingle(st, nid, svc, id, ds))

(***************************************************************************)
(* Specification SpecEmb: parents and embedded children of the three       *)
(* kinds are created, read, updated and deleted.                           *)
(***************************************************************************)
\* Number of ObjectIds bson generates under SpecEmb.
MaxEmbIds == 3

EmbIdsLeft == nextId <= MaxEmbIds

\* The id literals SpecEmb's requests carry for parents and for children.
ParentArgs == { IdStr(1, FALSE), IdStr(2, FALSE) }
ChildArgs == { IdStr(2, FALSE), IdStr(3, FALSE) }

\* The name of an operation on a kind.
OpOn(verb, kind) ==
    verb \o (CASE kind = ACTIVITY -> "_activity"
               [] kind = ACTIVITY_EXECUTION -> "_activity_execution"
               [] kind = RECORDING -> "_recording"
               [] kind = OBSERVABLE_INFORMATION -> "_observable_information"
               [] kind = PARTICIPANT -> "_participant"
               [] kind = PARTICIPANT_STATE -> "_participant_state")

\* The entity a new parent is created from.
ParentIn(kind, v) ==
    CASE kind = ACTIVITY -> [activity |-> v]
      [] kind = RECORDING -> [participation_id |-> Null, registered_channel_id |-> Null]
      [] kind = PARTICIPANT -> [name |-> v]

\* The entity a new child is created from.
ChildIn(kind, parent) ==
    CASE kind = ACTIVITY_EXECUTION ->
            [activity_id |-> parent, arrangement_id |-> Null,
             additional_properties |-> Null]
      [] kind = OBSERVABLE_INFORMATION ->
            [recording_id |-> parent, modality_id |-> Null, life_activity_id |-> Null]
      [] kind = PARTICIPANT_STATE ->
            [participant_id |-> parent, age |-> Null, additional_properties |-> Null,
             personality_ids |-> Null, appearance_ids |-> Null]

\* The input of an update of a child: properties, or for an observable
\* information its relationships.
ChildUpdate(kind, parent, v) ==
    IF kind = OBSERVABLE_INFORMATION
    THEN [recording_id |-> parent, modality_id |-> Null, life_activity_id |-> Null]
    ELSE [additional_properties |-> v]

SaveParent(ds, kind, v) ==
    /\ EmbIdsLeft
    /\ Do(OpOn("save", kind), ds, Null, ParentIn(kind, v), 0,
          CASE kind = ACTIVITY -> SaveActivityOp(store, nextId, ParentIn(kind, v), ds)
            [] kind = RECORDING -> SaveRecordingOp(store, nextId, ParentIn(kind, v), ds)
            [] kind = PARTICIPANT -> SaveParticipantOp(store, nextId, ParentIn(kind, v), ds))

SaveChild(ds, kind, parent) ==
    /\ EmbIdsLeft
    /\ Do(OpOn("save", kind), ds, Null, ChildIn(kind, parent), 0,
          CASE kind = ACTIVITY_EXECUTION ->
                  SaveActivityExecutionOp(store, nextId, ChildIn(kind, parent), ds)
            [] kind = OBSERVABLE_INFORMATION ->
                  SaveObservableInformationOp(store, nextId, ChildIn(kind, parent), ds)
            [] kind = PARTICIPANT_STATE ->
                  SaveParticipantStateOp(store, nextId, ChildIn(kind, parent), ds))

GetChild(ds, kind, id) ==
    Do(OpOn("get", kind), ds, id, << >>, 0,
       Outcome(store, nextId, GetSingle(store, nextId, kind, id, ds)))

UpdateChild(ds, kind, id, parent, v) ==
    Do(OpOn("update", kind), ds, id, ChildUpdate(kind, parent, v), 0,
       UpdateEmbeddedOp(store, nextId, kind, id, ChildUpdate(kind, parent, v), ds))

DeleteChild(ds, kind, id) ==
    Do(OpOn("delete", kind), ds, id, << >>, 0,
       DeleteEmbeddedOp(store, nextId, kind, id, ds))

NextEmb ==
    \/ \E ds \in Datasets, kind \in { ParentOf(k) : k \in EmbeddedKinds } :
          SaveParent(ds, kind, Val(1))
    \/ \E ds \in Datasets, kind \in EmbeddedKinds, parent \in ParentArgs :
          SaveChild(ds, kind, parent)
    \/ \E ds \in Datasets, kind \in EmbeddedKinds, id \in ChildArgs :
          GetChild(ds, kind, id)
    \/ \E ds \in Datasets, kind \in EmbeddedKinds, id \in ChildArgs,
          parent \in ParentArgs, v \in Values :
          UpdateChild(ds, kind, id, parent, v)
    \/ \E ds \in Datasets, kind \in EmbeddedKinds, id \in ChildArgs :
          DeleteChild(ds, kind, id)

SpecEmb == Init /\ [][NextEmb]_vars

(***************************************************************************)
(* Claims about embedded children (checked under SpecEmb).                 *)
(***************************************************************************)
\* The embedded kind an operation of SpecEmb addresses ("" for a parent).
KindOf(op) ==
    IF \E verb \in { "save", "get", "update", "delete" }, k \in EmbeddedKinds :
          op = OpOn(verb, k)
    THEN CHOOSE k \in EmbeddedKinds :
            \E verb \in { "save", "get", "update", "delete" } : op = OpOn(verb, k)
    ELSE ""

\* The stored embedded list of the i-th parent of the kind.
StoredChildren(st, ds, kind, i) == ChildrenIn(Rows(st, ds, ParentOf(kind))[i], kind)

\* The stored children without the one with the id.
Siblings(children, id) == SelectSeq(children, LAMBDA c : c["id"] # Oid(id.v))

\* C12: deleting an embedded child that is stored makes a get of it return
\* NotFound, takes it out of its parent's embedded list, and leaves every
\* sibling stored, unchanged and in order, whatever position the child had.
C12_DeleteKeepsSiblings ==
    [][ \A kind \in EmbeddedKinds :
          (/\ last'.op = OpOn("delete", kind)
           /\ StoredChild(store, last'.ds, kind, last'.id)) =>
              /\ GetSingle(store', nextId', kind, last'.id, last'.ds) = NotFound(last'.id)
              /\ ~StoredChild(store', last'.ds, kind, last'.id)
              /\ Len(Rows(store', last'.ds, ParentOf(kind)))
                    = Len(Rows(store, last'.ds, ParentOf(kind)))
              /\ \A i \in 1 .. Len(Rows(store, last'.ds, ParentOf(kind))) :
                    StoredChildren(store', last'.ds, kind, i)
                       = Siblings(StoredChildren(store, last'.ds, kind, i), last'.id) ]_vars

\* A child that was not the last of its parent's list has been deleted and
\* a sibling created after it is still stored.
C12_Witness ==
    \E kind \in EmbeddedKinds :
        /\ last.op = OpOn("delete", kind)
        /\ result.t = "doc"
        /\ last.id = IdStr(2, FALSE)
        /\ StoredChild(store, last.ds, kind, IdStr(3, FALSE))

\* The parent that stores the child is the one the update's input names
\* (only an update of an observable information names a parent).
SameParent(st, ds, kind, id, fields) ==
    Has(fields, ParentFk(kind)) =>
        /\ fields[ParentFk(kind)].t = "str"
        /\ \E i \in 1 .. Len(Rows(st, ds, ParentOf(kind))) :
              /\ Rows(st, ds, ParentOf(kind))[i]["_id"] = Oid(fields[ParentFk(kind)].v)
              /\ \E j \in 1 .. Len(StoredChildren(st, ds, kind, i)) :
                    StoredChildren(st, ds, kind, i)[j]["id"] = Oid(id.v)

\* C13: an update of a stored embedded child (within its parent) makes a get
\* of the child return the updated version, leaves every parent's embedded
\* list at its length, and puts the new version at the index the old one
\* had, every sibling staying where it was.
C13_UpdateInPlace ==
    [][ \A kind \in EmbeddedKinds :
          (/\ last'.op = OpOn("update", kind)
           /\ StoredChild(store, last'.ds, kind, last'.id)
           /\ SameParent(store, last'.ds, kind, last'.id, last'.arg)) =>
              /\ result'.t = "doc"
              /\ GetSingle(store', nextId', kind, last'.id, last'.ds) = result'
              /\ \A f \in DOMAIN last'.arg : result'.v[f] = last'.arg[f]
              /\ \A i \in 1 .. Len(Rows(store, last'.ds, ParentOf(kind))) :
                    /\ Len(StoredChildren(store', last'.ds, kind, i))
                          = Len(StoredChildren(store, last'.ds, kind, i))
                    /\ \A j \in 1 .. Len(StoredChildren(store, last'.ds, kind, i)) :
                          LET old == StoredChildren(store, last'.ds, kind, i)[j]
                              new == StoredChildren(store', last'.ds, kind, i)[j]
                          IN  IF old["id"] = Oid(last'.id.v)
                              THEN new["id"] = old["id"]
                              ELSE new = old ]_vars

(***************************************************************************)
(* Specification SpecConc: two requests update an observable information   *)
(* concurrently.  Every request is synchronous, but its store round trips  *)
(* interleave with those of the other request; a step below is the reads   *)
(* up to, or the write of, one replace of a recording.                     *)
(***************************************************************************)
\* A running request at position pc: the new version of the child, the
\* recording it is about to write and that recording's id.
Running(pc, ds, id, child, parentId, local) ==
    [pc |-> pc, ds |-> ds, id |-> id, child |-> child, parentId |-> parentId,
     local |-> local]

\* A request that has returned or raised.
Done(out) == [pc |-> "done", out |-> out]

\* The new version of an observable information: the input's fields set on
\* the existing one.
Merged(existing, fields) ==
    [f \in DOMAIN existing \cup DOMAIN fields |->
        IF f \in DOMAIN fields THEN fields[f] ELSE existing[f]]

\* update_observable_information_relationships up to the write of
\* remove_observable_information: the child is looked up, the new version
\* built, and the recording that holds the child read and the child taken
\* out of the copy read.
BeginUpdate(st, nid, id, fields, ds, existing, recording_old) ==
    IF IsRaise(existing) THEN Done(existing)
    ELSE IF existing.t # "doc" THEN Done(Raise("ValueError"))
    ELSE IF IsRaise(recording_old) THEN Done(recording_old)
    ELSE IF recording_old.t # "doc"
            \/ ChildIndex(recording_old.v[OBSERVABLE_INFORMATION].v, ObjectId(id, nid)) = 0
         THEN Running("removed", ds, id, Merged(existing.v, fields), Null, << >>)
         ELSE Running("removing", ds, id, Merged(existing.v, fields),
                      existing.v["recording_id"],
                      With(recording_old.v, OBSERVABLE_INFORMATION,
                           Emb(RemoveAt(recording_old.v[OBSERVABLE_INFORMATION].v,
                                  ChildIndex(recording_old.v[OBSERVABLE_INFORMATION].v,
                                             ObjectId(id, nid))))))

begin_update(r, ds, id, rec) ==
    /\ requests[r] = Idle
    /\ requests' = [requests EXCEPT ![r] =
          BeginUpdate(store, nextId, id,
              [recording_id |-> rec, modality_id |-> Null, life_activity_id |-> Null],
              ds,
              GetSingle(store, nextId, OBSERVABLE_INFORMATION, id, ds),
              IF GetSingle(store, nextId, OBSERVABLE_INFORMATION, id, ds).t = "doc"
              THEN GetSingle(store, nextId, RECORDING,
                      GetSingle(store, nextId, OBSERVABLE_INFORMATION, id, ds).v["recording_id"],
                      ds)
              ELSE Null)]
    /\ UNCHANGED <<travVars, store, nextId, result, last>>

\* self.update(recording_old_id, ...) of remove_observable_information
Wrote(r, o, next) ==
    /\ store' = o.st
    /\ nextId' = o.nid
    /\ requests' = [requests EXCEPT ![r] = IF IsRaise(o.out) THEN Done(o.out) ELSE next]
    /\ UNCHANGED <<travVars, result, last>>

write_removed(r) ==
    /\ requests[r].pc = "removing"
    /\ Wrote(r, Update(store, nextId, RECORDING, requests[r].parentId,
                       requests[r].local, requests[r].ds),
             [requests[r] EXCEPT !.pc = "removed"])

\* update_observable_information after the removal: the recording the new
\* version names is read and the new version appended to the copy read.
ReadNew(req, recording) ==
    IF IsRaise(recording) THEN Done(recording)
    ELSE IF recording.t # "doc" THEN Done(NotFound(req.id))
    ELSE IF ~Has(recording.v, OBSERVABLE_INFORMATION) THEN Done(Raise("KeyError"))
    ELSE Running("appending", req.ds, req.id, req.child, req.child["recording_id"],
                 With(recording.v, OBSERVABLE_INFORMATION,
                      Emb(Append(recording.v[OBSERVABLE_INFORMATION].v, req.child))))

read_new(r) ==
    /\ requests[r].pc = "removed"
    /\ requests' = [requests EXCEPT ![r] =
          ReadNew(requests[r],
                  GetSingle(store, nextId, RECORDING, requests[r].child["recording_id"],
                            requests[r].ds))]
    /\ UNCHANGED <<travVars, store, nextId, result, last>>

\* self.update(recording_id, ...) of update_observable_information
write_appended(r) ==
    /\ requests[r].pc = "appending"
    /\ Wrote(r, Update(store, nextId, RECORDING, requests[r].parentId,
                       requests[r].local, requests[r].ds),
             Done(Doc(requests[r].child)))

NextConc ==
    \/ \E ds \in Datasets : save_recording(ds, Null, Null)
    \/ \E ds \in Datasets, rec \in { IdStr(1, FALSE), IdStr(2, FALSE) } :
          save_observable_information(ds, rec, Null)
    \/ \E r \in Requests, ds \in Datasets, id \in { IdStr(2, FALSE), IdStr(3, FALSE) },
          rec \in { IdStr(1, FALSE), IdStr(2, FALSE) } :
          begin_update(r, ds, id, rec)
    \/ \E r \in Requests : write_removed(r)
    \/ \E r \in Requests : read_new(r)
    \/ \E r \in Requests : write_appended(r)

SpecConc == Init /\ [][NextConc]_vars

(***************************************************************************)
(* Claim about the identity of embedded children (checked under SpecConc). *)
(***************************************************************************)
\* The places (parent, index) at which the dataset stores children of the
\* kind.
Places(st, ds, kind) ==
    { p \in (1 .. Len(Rows(st, ds, ParentOf(kind)))) \X (1 .. MaxRecIds + 2) :
        p[2] <= Len(StoredChildren(st, ds, kind, p[1])) }

\* C14: in every reachable state, also between the steps of two concurrent
\* requests on the same child, no two embedded children of a dataset share
\* an id: an id occurs at most once in its parent's embedded list and in no
\* other parent's list.
C14_ChildIdsUnique ==
    \A ds \in Datasets, kind \in EmbeddedKinds :
        \A p, q \in Places(store, ds, kind) :
            StoredChildren(store, ds, kind, p[1])[p[2]]["id"]
               = StoredChildren(store, ds, kind, q[1])[q[2]]["id"] => p = q

(***************************************************************************)
(* Scenarios.  A stored scenario holds, under activity_executions, a list  *)
(* of branches, each a list of activity-execution id strings (None for an  *)
(* execution whose save only returned errors).  The readers below build a  *)
(* ScenarioOut from the stored document (every id looked up, a missing     *)
(* execution coerced from its NotFoundByIdModel); the writers use only its *)
(* id, so the looked-up objects are left out.                              *)
(***************************************************************************)
\* ExperimentServiceMongoDB.save_experiment
SaveExperimentOp(st, nid, experiment, ds) == Create(st, nid, EXPERIMENT, experiment, ds)

\* The branches of a scenario document.
BranchesOf(scenario_dict) == scenario_dict[ACTIVITY_EXECUTION].v

\* activity_execution_id in activity_executions_list
InBranch(branch, id) == \E j \in 1 .. Len(branch.v) : branch.v[j] = id

\* list.index(id): the first position (counted from 1) of id.
IndexIn(branch, id) ==
    CHOOSE j \in 1 .. Len(branch.v) :
        branch.v[j] = id /\ \A k \in 1 .. j - 1 : branch.v[k] # id

\* The first branch that holds id (0 if none does).
BranchWith(branches, id) ==
    IF \E i \in 1 .. Len(branches) : InBranch(branches[i], id)
    THEN CHOOSE i \in 1 .. Len(branches) :
            InBranch(branches[i], id) /\ \A k \in 1 .. i - 1 : ~InBranch(branches[k], id)
    ELSE 0

\* {"activity_executions": {"$elemMatch": {"$elemMatch": {"$eq": id}}}}
HoldsExecution(row, id) ==
    /\ Has(row, ACTIVITY_EXECUTION)
    /\ row[ACTIVITY_EXECUTION].t = "list"
    /\ BranchWith(row[ACTIVITY_EXECUTION].v, id) # 0

RECURSIVE Holding(_, _)
Holding(rows, id) ==
    IF rows = << >> THEN << >>
    ELSE IF HoldsExecution(Head(rows), id)
         THEN << Head(rows) >> \o Holding(Tail(rows), id)
         ELSE Holding(Tail(rows), id)

\* The first of the scenarios a query returned, or NotFoundByIdModel.
FirstScenario(scenarios, id) ==
    IF IsRaise(scenarios) THEN scenarios
    ELSE IF Len(scenarios.v) = 0 THEN NotFound(id)
    ELSE Doc(scenarios.v[1])

\* ScenarioServiceMongoDB.get_scenario_by_activity_execution
GetScenarioByActivityExecution(st, activity_execution_id, ds) ==
    FirstScenario(
        Emb([i \in 1 .. Len(Holding(Rows(st, ds, SCENARIO), activity_execution_id)) |->
                UpdateMongoOutputId(Holding(Rows(st, ds, SCENARIO), activity_execution_id)[i])]),
        activity_execution_id)

\* ScenarioServiceMongoDB.get_scenario_by_experiment
GetScenarioByExperiment(st, experiment_id, ds) ==
    FirstScenario(
        GetDocuments(st, SCENARIO, ds, [f \in { "experiment_id" } |-> experiment_id],
                     NoProjection),
        experiment_id)

\* ScenarioServiceMongoDB.get_scenario_by_element_id, given what the three
\* lookups of element_id return: the scenario and whether the related
\* element is an experiment.
ScenarioOfElement(st, element_id, ds, scenario_result, experiment_result, activity_execution_result) ==
    IF IsRaise(scenario_result)
    THEN [scenario |-> scenario_result, is_from_experiment |-> FALSE]
    ELSE IF scenario_result.t = "doc"
    THEN [scenario |-> scenario_result, is_from_experiment |-> FALSE]
    ELSE IF experiment_result.t = "doc"
    THEN [scenario |-> GetScenarioByExperiment(st, element_id, ds),
          is_from_experiment |-> TRUE]
    ELSE IF activity_execution_result.t = "doc"
    THEN [scenario |-> GetScenarioByActivityExecution(st, element_id, ds),
          is_from_experiment |-> FALSE]
    ELSE [scenario |-> NotFound(element_id), is_from_experiment |-> FALSE]

GetScenarioByElementId(st, fresh, element_id, ds) ==
    ScenarioOfElement(st, element_id, ds,
                      GetSingle(st, fresh, SCENARIO, element_id, ds),
                      GetSingle(st, fresh, EXPERIMENT, element_id, ds),
                      GetSingle(st, fresh, ACTIVITY_EXECUTION, element_id, ds))

\* new_activity_execution_index: the branch, and the number of ids before
\* the new one in it.
NewActivityExecutionIndex(branches, previous_id, is_from_experiment) ==
    IF ~is_from_experiment /\ BranchWith(branches, previous_id) # 0
    THEN << BranchWith(branches, previous_id),
            IndexIn(branches[BranchWith(branches, previous_id)], previous_id) >>
    ELSE << 1, 0 >>

\* list.insert(k, id)
InsertAt(branch, k, id) ==
    Lst(SubSeq(branch.v, 1, k) \o << id >> \o SubSeq(branch.v, k + 1, Len(branch.v)))

\* The insert and the replace of the scenario document; indexing a branch
\* the scenario does not have raises IndexError.
Inserted(st, nid, scenario_id, scenario_dict, index, activity_execution_id, ds) ==
    IF index[1] > Len(BranchesOf(scenario_dict))
    THEN Outcome(st, nid, Raise("IndexError"))
    ELSE UpdateDocumentWithDict(st, nid, SCENARIO, scenario_id,
            With(scenario_dict, ACTIVITY_EXECUTION,
                 Lst([BranchesOf(scenario_dict) EXCEPT ![index[1]] =
                        InsertAt(@, index[2], activity_execution_id)])),
            ds)

PutInto(st, nid, previous_id, activity_execution_id, ds, found, scenario_dict) ==
    Inserted(st, nid, found.scenario.v["id"], scenario_dict.v,
             NewActivityExecutionIndex(BranchesOf(scenario_dict.v), previous_id,
                                       found.is_from_experiment),
             activity_execution_id, ds)

PutFound(st, nid, previous_id, activity_execution_id, ds, found) ==
    IF found.scenario.t # "doc" THEN Outcome(st, nid, found.scenario)
    ELSE PutInto(st, nid, previous_id, activity_execution_id, ds, found,
                 GetDocument(st, nid, found.scenario.v["id"], SCENARIO, ds))

\* ScenarioServiceMongoDB._put_activity_execution_after_element
PutActivityExecutionAfterElement(st, nid, previous_id, activity_execution_id, ds) ==
    PutFound(st, nid, previous_id, activity_execution_id, ds,
             GetScenarioByElementId(st, nid, previous_id, ds))

AddSaved(previous_id, ds, saved) ==
    IF IsRaise(saved.out) THEN saved
    ELSE Returning(PutActivityExecutionAfterElement(saved.st, saved.nid, previous_id,
                                                    IdOf(saved.out), ds),
                   saved.out)

\* ScenarioServiceMongoDB.add_activity_execution
AddActivityExecutionOp(st, nid, previous_id, activity_execution, ds) ==
    AddSaved(previous_id, ds, SaveActivityExecutionOp(st, nid, activity_execution, ds))

AppendBranch(st, nid, scenario_id, scenario_dict, ds, saved) ==
    IF IsRaise(saved.out) THEN saved
    ELSE Returning(
            UpdateDocumentWithDict(saved.st, saved.nid, SCENARIO, scenario_id,
                With(scenario_dict, ACTIVITY_EXECUTION,
                     Lst(Append(BranchesOf(scenario_dict),
                                Lst([i \in 1 .. Len(saved.out.v) |-> IdOf(saved.out.v[i])])))),
                ds),
            Doc([id |-> scenario_id]))

AddExecutionTo(st, nid, scenario_id, scenario, ds, scenario_dict) ==
    IF scenario_dict.t # "doc" THEN Outcome(st, nid, scenario_dict)
    ELSE AppendBranch(st, nid, scenario_id, scenario_dict.v, ds,
                      SaveExecutions(st, nid, ExecutionsOf(scenario), ds))

\* ScenarioServiceMongoDB.add_scenario_execution (of the scenario returned
\* at the end only the id is kept).
AddScenarioExecutionOp(st, nid, scenario_id, scenario, ds) ==
    AddExecutionTo(st, nid, scenario_id, scenario, ds,
                   GetDocument(st, nid, scenario_id, SCENARIO, ds))

\* (mutation of RemoveFirst: the id after the removed one goes as well)
RemoveWithNext(branch, id) ==
    Lst(SubSeq(branch.v, 1, IndexIn(branch, id) - 1)
        \o SubSeq(branch.v, IndexIn(branch, id) + 2, Len(branch.v)))

\* list.remove(id)
RemoveFirst(branch, id) ==
    Lst(SubSeq(branch.v, 1, IndexIn(branch, id) - 1)
        \o SubSeq(branch.v, IndexIn(branch, id) + 1, Len(branch.v)))

\* The branches after the loop of delete_activity_execution.
WithoutExecution(branches, id) ==
    IF BranchWith(branches, id) = 0 THEN branches
    ELSE [branches EXCEPT ![BranchWith(branches, id)] = RemoveFirst(@, id)]

RemoveFrom(st, nid, activity_execution_id, ds, scenario, scenario_dict) ==
    ThenGet(
        UpdateDocumentWithDict(st, nid, SCENARIO, scenario.v["id"],
            With(scenario_dict.v, ACTIVITY_EXECUTION,
                 Lst(WithoutExecution(BranchesOf(scenario_dict.v), activity_execution_id))),
            ds),
        ACTIVITY_EXECUTION, activity_execution_id, ds)

RemoveFound(st, nid, activity_execution_id, ds, scenario) ==
    IF scenario.t # "doc" THEN Outcome(st, nid, scenario)
    ELSE RemoveFrom(st, nid, activity_execution_id, ds, scenario,
                    GetDocument(st, nid, scenario.v["id"], SCENARIO, ds))

\* ScenarioServiceMongoDB.delete_activity_execution
ScenarioDeleteActivityExecutionOp(st, nid, activity_execution_id, ds) ==
    RemoveFound(st, nid, activity_execution_id, ds,
                GetScenarioByActivityExecution(st, activity_execution_id, ds))

Reinserted(deleted, order_change, ds) ==
    IF IsRaise(deleted.out) THEN deleted
    ELSE Returning(
            PutActivityExecutionAfterElement(deleted.st, deleted.nid,
                order_change["previous_id"], order_change["activity_execution_id"], ds),
            Doc(<< >>))

\* ScenarioServiceMongoDB.change_order
ChangeOrderOp(st, nid, order_change, ds) ==
    IF order_change["activity_execution_id"] = order_change["previous_id"]
    THEN Outcome(st, nid, Errors("Given indexes for order change are identical"))
    ELSE Reinserted(
            ScenarioDeleteActivityExecutionOp(st, nid,
                order_change["activity_execution_id"], ds),
            order_change, ds)

(***************************************************************************)
(* SpecScen: scenarios of one experiment and their activity executions.    *)
(***************************************************************************)
\* Number of ObjectIds generated under SpecScen.
MaxScenIds == 5

\* The experiment and the activity every request of SpecScen refers to.
TheExperiment == IdStr(1, FALSE)
TheActivity == IdStr(2, FALSE)

\* The store after save_experiment and save_activity on an empty database.
WithActivity(saved) == SaveActivityOp(saved.st, saved.nid, [activity |-> Val(1)],
                                      mongo_database_name)
Prepared ==
    WithActivity(SaveExperimentOp(EmptyStore, 1, [experiment_name |-> Val(1)],
                                  mongo_database_name))

InitScen ==
    /\ InitTrav
    /\ store = Prepared.st
    /\ nextId = Prepared.nid
    /\ result = Null
    /\ last = Op("", "", Null, << >>, 0)
    /\ requests = [r \in Requests |-> Idle]

\* The ids requests of SpecScen name as activity executions.
ExecutionArgs == { IdStr(n, FALSE) : n \in { 3, 5, 6 } }
ScenarioArgs == { IdStr(3, FALSE), IdStr(4, FALSE) }

\* An ActivityExecutionIn of the activity, and a ScenarioIn with n of them.
ExecutionIn == ChildIn(ACTIVITY_EXECUTION, TheActivity)
ScenarioIn(n) ==
    [experiment_id |-> TheExperiment,
     activity_executions |-> Emb([i \in 1 .. n |-> ExecutionIn])]

save_scenario_executions(ds, n) ==
    /\ nextId + n <= MaxScenIds
    /\ Do("save_scenario", ds, Null, ScenarioIn(n), 0,
          SaveScenarioOp(store, nextId, ScenarioIn(n), ds))

add_scenario_execution(ds, id, n) ==
    /\ nextId + n - 1 <= MaxScenIds
    /\ Do("add_scenario_execution", ds, id, ScenarioIn(n), 0,
          AddScenarioExecutionOp(store, nextId, id, ScenarioIn(n), ds))

add_activity_execution(ds, previous_id) ==
    /\ nextId <= MaxScenIds
    /\ Do("add_activity_execution", ds, previous_id, ExecutionIn, 0,
          AddActivityExecutionOp(store, nextId, previous_id, ExecutionIn, ds))

delete_activity_execution(ds, id) ==
    Do("scenario.delete_activity_execution", ds, id, << >>, 0,
       ScenarioDeleteActivityExecutionOp(store, nextId, id, ds))

change_order(ds, x, p) ==
    LET order_change == [activity_execution_id |-> x, previous_id |-> p] IN
    Do("change_order", ds, Null, order_change, 0,
       ChangeOrderOp(store, nextId, order_change, ds))

NextScen ==
    \/ \E ds \in Datasets, n \in 0 .. 1 : save_scenario_executions(ds, n)
    \/ \E ds \in Datasets, id \in ScenarioArgs : add_scenario_execution(ds, id, 1)
    \/ \E ds \in Datasets, previous_id \in ExecutionArgs \cup { TheExperiment } :
          add_activity_execution(ds, previous_id)
    \/ \E ds \in Datasets, id \in ExecutionArgs : delete_activity_execution(ds, id)
    \/ \E ds \in Datasets, x \in ExecutionArgs, p \in ExecutionArgs : change_order(ds, x, p)
    \/ \E ds \in Datasets : DeleteChild(ds, ACTIVITY_EXECUTION, IdStr(3, FALSE))

SpecScen == InitScen /\ [][NextScen]_vars

(***************************************************************************)
(* Claims about the order of a scenario's activity executions.             *)
(***************************************************************************)
\* The stored scenarios of the only dataset, and the branches of the s-th.
Scenarios(st) == Rows(st, mongo_database_name, SCENARIO)
StoredBranches(st, s) == BranchesOf(Scenarios(st)[s])

\* The scenario an element id stands for: the first scenario of that
\* experiment, or the first one holding that activity-execution id (0: none).
FirstOfExperiment(st, id) ==
    IF \E s \in 1 .. Len(Scenarios(st)) : StrOfId(Scenarios(st)[s]["experiment_id"]) = id
    THEN CHOOSE s \in 1 .. Len(Scenarios(st)) :
            /\ StrOfId(Scenarios(st)[s]["experiment_id"]) = id
            /\ \A k \in 1 .. s - 1 : StrOfId(Scenarios(st)[k]["experiment_id"]) # id
    ELSE 0

FirstHolding(st, id) ==
    IF \E s \in 1 .. Len(Scenarios(st)) : HoldsExecution(Scenarios(st)[s], id)
    THEN CHOOSE s \in 1 .. Len(Scenarios(st)) :
            /\ HoldsExecution(Scenarios(st)[s], id)
            /\ \A k \in 1 .. s - 1 : ~HoldsExecution(Scenarios(st)[k], id)
    ELSE 0

\* The branches with id spliced in right after previous_id.
SplicedAfter(branches, previous_id, id) ==
    [i \in 1 .. Len(branches) |->
        IF i = BranchWith(branches, previous_id)
        THEN Lst(SubSeq(branches[i].v, 1, IndexIn(branches[i], previous_id))
                 \o << id >>
                 \o SubSeq(branches[i].v, IndexIn(branches[i], previous_id) + 1,
                           Len(branches[i].v)))
        ELSE branches[i]]

\* The branches with id put first in the first branch (made if there is none).
PutFirst(branches, id) ==
    IF branches = << >> THEN << Lst(<< id >>) >>
    ELSE [i \in 1 .. Len(branches) |->
            IF i = 1 THEN Lst(<< id >> \o branches[i].v) ELSE branches[i]]

\* C15: add_activity_execution(previous_id, x) puts the new id right after
\* previous_id in previous_id's branch when previous_id is an activity
\* execution of a scenario, and first in the first branch when previous_id is
\* the scenario's experiment, also for a scenario without any branch; every
\* other id keeps its branch and its order.
C15_AddAfterElement ==
    [][ last'.op = "add_activity_execution" =>
          /\ FirstHolding(store, last'.id) # 0 =>
                StoredBranches(store', FirstHolding(store, last'.id))
                  = SplicedAfter(StoredBranches(store, FirstHolding(store, last'.id)),
                                 last'.id, StrOfId(Oid(nextId)))
          /\ FirstOfExperiment(store, last'.id) # 0 =>
                StoredBranches(store', FirstOfExperiment(store, last'.id))
                  = PutFirst(StoredBranches(store, FirstOfExperiment(store, last'.id)),
                             StrOfId(Oid(nextId))) ]_vars

\* The branches without the first occurrence of id in the first branch
\* that holds it.
OneRemoved(branches, id) ==
    [i \in 1 .. Len(branches) |->
        IF i = BranchWith(branches, id)
        THEN Lst([k \in 1 .. Len(branches[i].v) - 1 |->
                    IF k < IndexIn(branches[i], id)
                    THEN branches[i].v[k] ELSE branches[i].v[k + 1]])
        ELSE branches[i]]

\* The scenarios other than the s-th, and everything that is no scenario,
\* are the same in both stores.
OnlyScenarioChanged(st, new, s) ==
    /\ \A ds \in Datasets, c \in StoredCollections \ { SCENARIO } :
          Rows(new, ds, c) = Rows(st, ds, c)
    /\ Len(Scenarios(new)) = Len(Scenarios(st))
    /\ \A k \in 1 .. Len(Scenarios(st)) :
          /\ k # s => Scenarios(new)[k] = Scenarios(st)[k]
          /\ \A f \in DOMAIN Scenarios(st)[k] \ { ACTIVITY_EXECUTION } :
                Has(Scenarios(new)[k], f) /\ Scenarios(new)[k][f] = Scenarios(st)[k][f]

Moved(l) == l.arg["activity_execution_id"]
Before(l) == l.arg["previous_id"]

\* C17: change_order(x, p) with x # p, both held by the same scenario, leaves
\* x right after p in p's branch and every other id in its branch and order
\* (also when p was directly before or directly after x); change_order(x, x)
\* returns an error and changes nothing.
C17_ChangeOrder ==
    [][ last'.op = "change_order" =>
          /\ Moved(last') = Before(last') => result'.t = "errors" /\ store' = store
          /\ (/\ Moved(last') # Before(last')
              /\ FirstHolding(store, Moved(last')) # 0
              /\ FirstHolding(store, Moved(last')) = FirstHolding(store, Before(last'))) =>
                StoredBranches(store', FirstHolding(store, Moved(last')))
                  = SplicedAfter(OneRemoved(StoredBranches(store,
                                                FirstHolding(store, Moved(last'))),
                                            Moved(last')),
                                 Before(last'), Moved(last')) ]_vars

(***************************************************************************)
(* Filtered time-series aggregation.  A query parameter key is written as  *)
(* the sequence of the parts its name has between underscores, which is    *)
(* what key.split("_") returns.  Lists of ids the database returns in no   *)
(* specified order are sets here; where the code takes the first element   *)
(* of such a result every element is a possible outcome.                   *)
(***************************************************************************)
\* ParticipationServiceMongoDB.save_participation
SaveParticipationOp(st, nid, participation, ds) ==
    Checked(st, nid,
            CheckRelated(st, nid,
                << <<ACTIVITY_EXECUTION, participation["activity_execution_id"],
                     "given activity execution does not exist">>,
                   <<PARTICIPANT_STATE, participation["participant_state_id"],
                     "given participant state does not exist">> >>, ds),
            Create(st, nid, PARTICIPATION, participation, ds))

\* The parameters of one entity: property -> value.
ParamsOf(query_params, entity) ==
    [property \in { key[2] : key \in { k \in DOMAIN query_params : k[1] = entity } } |->
        query_params[<< entity, property >>]]

\* The values a $lookup takes from its localField: a missing field counts
\* as null, an array stands for each of its elements.
LocalValues(d, field) ==
    IF ~Has(d, field) THEN { Null }
    ELSE IF d[field].t = "list" THEN { d[field].v[i] : i \in 1 .. Len(d[field].v) }
    ELSE { d[field] }

\* The ids of the children embedded in a parent (localField "<list>.id").
EmbeddedIds(d, list) ==
    IF ~Has(d, list) \/ d[list].t # "docs" THEN { Null }
    ELSE { d[list].v[i]["id"] : i \in 1 .. Len(d[list].v) }

\* A foreign document joins when its foreignField equals one of the local
\* values, or is an array holding one.
Joins(row, field, locals) ==
    \E local \in locals :
        IF Has(row, field) THEN MatchValue(row[field], local) ELSE local = Null

\* $lookup from timeSeries on metadata.observable_information_id, then
\* $setUnion of timeSeries.metadata.id: the ids of the joined series.
JoinedSeries(st, ds, locals) ==
    { Rows(st, ds, TIME_SERIES)[i][Meta("id")] :
        i \in { j \in 1 .. Len(Rows(st, ds, TIME_SERIES)) :
                  Joins(Rows(st, ds, TIME_SERIES)[j], Meta("observable_information_id"),
                        locals) } }

FieldOr(d, field) == IF Has(d, field) THEN d[field] ELSE [t |-> "missing"]

\* A $match on the parameters of an entity against the document d (for
\* participant states the unwound state): "id" stands for the id field,
\* whose value is id_of, and is compared as an ObjectId.
MatchesParams(params, id_of, d) ==
    \A property \in DOMAIN params :
        IF property = "id" THEN id_of = ObjectId(params[property], 0)
        ELSE MatchValue(FieldOr(d, property), params[property])

\* What [0] of a result of one document per distinct array can be.
FirstOf(arrays) == IF arrays = {} THEN { {} } ELSE arrays

RowSet(st, ds, c) == { Rows(st, ds, c)[i] : i \in 1 .. Len(Rows(st, ds, c)) }

\* MongoApiService._get_ts_by_recording
GetTsByRecording(st, ds, recording_params) ==
    FirstOf({ JoinedSeries(st, ds, EmbeddedIds(recording, OBSERVABLE_INFORMATION)) :
                recording \in { r \in RowSet(st, ds, RECORDING) :
                                  MatchesParams(recording_params, r["_id"], r) } })

\* $unwind of an embedded list: the children (none when the list is missing).
Unwound(d, list) ==
    IF ~Has(d, list) \/ d[list].t # "docs" THEN { }
    ELSE { d[list].v[i] : i \in 1 .. Len(d[list].v) }

\* $unwind participant_states: one row per participant and state.
ParticipantRows(st, ds) ==
    UNION { { << participant, ps >> : ps \in Unwound(participant, PARTICIPANT_STATE) } :
              participant \in RowSet(st, ds, PARTICIPANT) }

\* $lookup participations by participant_state_id, $unwind.
ParticipationsOf(st, ds, ps) ==
    { pa \in RowSet(st, ds, PARTICIPATION) : Joins(pa, "participant_state_id", { ps["id"] }) }

\* $lookup recordings by participation_id, $unwind, $unwind of their
\* observable informations, $lookup timeSeries: one array of series ids per
\* observable information.
SeriesOfParticipation(st, ds, pa) ==
    { JoinedSeries(st, ds, { oi["id"] }) :
        oi \in UNION { Unwound(recording, OBSERVABLE_INFORMATION) :
                         recording \in { r \in RowSet(st, ds, RECORDING) :
                                           Joins(r, "participation_id", { pa["_id"] }) } } }

\* MongoApiService._get_ts_by_pariticipant: results.extend over every
\* distinct array.
GetTsByParticipant(st, ds, participant_state_params, participant_params) ==
    UNION UNION {
        UNION { SeriesOfParticipation(st, ds, pa) : pa \in ParticipationsOf(st, ds, row[2]) } :
          row \in { r \in ParticipantRows(st, ds) :
                      /\ MatchesParams(participant_state_params, r[2]["id"], r[2])
                      /\ MatchesParams(participant_params, r[1]["_id"], r[1]) } }

\* $lookup scenarios by activity_executions, $unwind, $lookup experiments,
\* $match: the participations whose activity execution joins a scenario of
\* a matching experiment.
ExperimentsOf(st, ds, scenario) ==
    { e \in RowSet(st, ds, EXPERIMENT) : Joins(e, "_id", LocalValues(scenario, "experiment_id")) }

ScenariosOf(st, ds, pa) ==
    { scenario \in RowSet(st, ds, SCENARIO) :
        Joins(scenario, ACTIVITY_EXECUTION, LocalValues(pa, "activity_execution_id")) }

MatchesExperiment(experiments, experiment_params) ==
    \A property \in DOMAIN experiment_params :
        \E e \in experiments :
            IF property = "id" THEN e["_id"] = ObjectId(experiment_params[property], 0)
            ELSE MatchValue(FieldOr(e, property), experiment_params[property])

\* MongoApiService._get_ts_by_experiment
GetTsByExperiment(st, ds, experiment_params) ==
    FirstOf(UNION {
        UNION { SeriesOfParticipation(st, ds, pa) :
                  pa \in { p \in ParticipationsOf(st, ds, row[2]) :
                             \E scenario \in ScenariosOf(st, ds, p) :
                                MatchesExperiment(ExperimentsOf(st, ds, scenario),
                                                  experiment_params) } } :
          row \in ParticipantRows(st, ds) })

\* The lists of ids of _get_many_ts_filtered: None, or a list.
NoList == [t |-> "none"]
Ids(set) == [t |-> "ids", v |-> set]

\* (mutation of Intersection: the union is taken)
UnionOf(matching_ts_ids, ts_ids) == Ids(matching_ts_ids.v \cup ts_ids.v)

\* matching_ts_ids.intersection(set(ts_ids))
Intersection(matching_ts_ids, ts_ids) == Ids(matching_ts_ids.v \cap ts_ids.v)

\* The loop over non_empty_lists.
RECURSIVE Intersected(_, _)
Intersected(matching_ts_ids, lists) ==
    IF lists = << >> THEN matching_ts_ids
    ELSE Intersected(Intersection(matching_ts_ids, Head(lists)), Tail(lists))

NonEmptyLists(lists) == SelectSeq(lists, LAMBDA ts_list : ts_list # NoList)

Matching(lists) ==
    IF Len(NonEmptyLists(lists)) = 0 THEN NoList
    ELSE Intersected(Head(NonEmptyLists(lists)), Tail(NonEmptyLists(lists)))

\* The known entities of a parameter key.
Dimensions == { "recording", "participantstate", "participant", "experiment" }

\* What the three lookups can return for the parameters.
TsByRecording(st, ds, query_params) ==
    IF DOMAIN ParamsOf(query_params, "recording") = {} THEN { NoList }
    ELSE { Ids(ids) : ids \in GetTsByRecording(st, ds, ParamsOf(query_params, "recording")) }

TsByParticipant(st, ds, query_params) ==
    IF /\ DOMAIN ParamsOf(query_params, "participantstate") = {}
       /\ DOMAIN ParamsOf(query_params, "participant") = {}
    THEN { NoList }
    ELSE { Ids(GetTsByParticipant(st, ds, ParamsOf(query_params, "participantstate"),
                                  ParamsOf(query_params, "participant"))) }

TsByExperiment(st, ds, query_params) ==
    IF DOMAIN ParamsOf(query_params, "experiment") = {} THEN { NoList }
    ELSE { Ids(ids) : ids \in GetTsByExperiment(st, ds, ParamsOf(query_params, "experiment")) }

\* MongoApiService._get_many_ts_filtered: every value it can return.  The
\* unpacking of key.split("_") needs exactly two parts, and the value of
\* an id parameter has to be a well-formed id.
GetManyTsFiltered(st, ds, query_params) ==
    IF \E key \in DOMAIN query_params : Len(key) # 2 THEN { Raise("ValueError") }
    ELSE IF \E key \in DOMAIN query_params :
               /\ key[1] \in Dimensions
               /\ key[2] = "id"
               /\ query_params[key].t = "bad"
    THEN { Raise("InvalidId") }
    ELSE { Matching(<< by_recording, by_participant, by_experiment >>) :
             by_recording \in TsByRecording(st, ds, query_params),
             by_participant \in TsByParticipant(st, ds, query_params),
             by_experiment \in TsByExperiment(st, ds, query_params) }

\* MongoApiService._get_many_ts with {"metadata.id": {"$in": ts_ids}} (with
\* {} when ts_ids is NoList): the series in no specified order, each
\* converted from its records.
SeriesSet(set) == [t |-> "set", v |-> set]

GetManyTs(st, ds, ts_ids) ==
    SeriesSet({ TimeSeriesDocumentsToDict(RecordsOf(Rows(st, ds, TIME_SERIES), id)) :
                  id \in { Rows(st, ds, TIME_SERIES)[i][Meta("id")] :
                             i \in { j \in 1 .. Len(Rows(st, ds, TIME_SERIES)) :
                                       \/ ts_ids = NoList
                                       \/ Rows(st, ds, TIME_SERIES)[j][Meta("id")]
                                            \in ts_ids.v } } })

\* MongoApiService.get_many_time_series called with query_params (and the
\* default query): every value it can return.
GetManyTimeSeries(st, ds, query_params) ==
    IF DOMAIN query_params = {} THEN { GetManyTs(st, ds, NoList) }
    ELSE { IF IsRaise(ts_ids) THEN ts_ids ELSE GetManyTs(st, ds, ts_ids) :
             ts_ids \in GetManyTsFiltered(st, ds, query_params) }

(***************************************************************************)
(* SpecTs: time series of the observable informations of three recordings, *)
(* and the filtered reads of them.                                         *)
(***************************************************************************)
\* Last ObjectId generated under SpecTs.
MaxTsIds == 15

\* The ids of the documents every request of SpecTs refers to.
TsExperiment == IdStr(1, FALSE)
TsExecution == IdStr(3, FALSE)
TsParticipant == IdStr(5, FALSE)
TsParticipantState == IdStr(6, FALSE)
TsParticipation == IdStr(7, FALSE)
TsRecordings == << IdStr(8, FALSE), IdStr(10, FALSE), IdStr(12, FALSE) >>
TsObservableInformations == << IdStr(9, FALSE), IdStr(11, FALSE) >>

\* The saves that lead to two recordings of one participation, each with an
\* observable information, and a recording of no participation without
\* observable informations.
WithScenario(saved) ==
    SaveScenarioOp(saved.st, saved.nid,
                   [experiment_id |-> TsExperiment,
                    activity_executions |->
                        Emb(<< ChildIn(ACTIVITY_EXECUTION, TheActivity) >>)],
                   mongo_database_name)

WithParticipant(saved) ==
    SaveParticipantOp(saved.st, saved.nid, ParentIn(PARTICIPANT, Val(1)),
                      mongo_database_name)

WithParticipantState(saved) ==
    SaveParticipantStateOp(saved.st, saved.nid, ChildIn(PARTICIPANT_STATE, TsParticipant),
                           mongo_database_name)

WithParticipation(saved) ==
    SaveParticipationOp(saved.st, saved.nid,
                        [activity_execution_id |-> TsExecution,
                         participant_state_id |-> TsParticipantState],
                        mongo_database_name)

WithRecording(saved, participation_id) ==
    SaveRecordingOp(saved.st, saved.nid,
                    [participation_id |-> participation_id,
                     registered_channel_id |-> Null],
                    mongo_database_name)

WithObservableInformation(saved, recording_id) ==
    SaveObservableInformationOp(saved.st, saved.nid,
                                ChildIn(OBSERVABLE_INFORMATION, recording_id),
                                mongo_database_name)

Participating == WithParticipation(WithParticipantState(WithParticipant(WithScenario(Prepared))))
FirstRecorded == WithRecording(Participating, TsParticipation)
FirstObserved == WithObservableInformation(FirstRecorded, TsRecordings[1])
SecondRecorded == WithRecording(FirstObserved, TsParticipation)
SecondObserved == WithObservableInformation(SecondRecorded, TsRecordings[2])
TsPrepared == WithRecording(SecondObserved, Null)

InitTs ==
    /\ InitTrav
    /\ store = TsPrepared.st
    /\ nextId = TsPrepared.nid
    /\ result = Null
    /\ last = Op("", "", Null, << >>, 0)
    /\ requests = [r \in Requests |-> Idle]

\* A TimeSeriesIn of an observable information with n signals.
TimeSeriesInOf(observable_information_id, n) ==
    [type |-> Val(1), observable_information_id |-> observable_information_id,
     measure_id |-> Null,
     signal_values |-> Lst([i \in 1 .. n |-> [timestamp |-> i, value |-> i]])]

\* The properties an update of a series carries, with n signals.
TimeSeriesProperties(n) ==
    [type |-> Val(2),
     signal_values |-> Lst([i \in 1 .. n |-> [timestamp |-> i, value |-> i]])]

\* The ids requests of SpecTs name as time series.
TimeSeriesArgs == { IdStr(n, FALSE) : n \in { 13, 14 } }

\* Query parameters: one key, and two sets of them together.
Param(entity_and_property, value) ==
    [key \in { entity_and_property } |-> value]

QueryParams ==
    { Param(<< "recording", "id" >>, TsRecordings[1]),
      Param(<< "recording", "id" >>, TsRecordings[3]),
      Param(<< "recording", "id" >>, BadStr),
      Param(<< "participant", "id" >>, TsParticipant),
      Param(<< "participant", "name" >>, Val(1)),
      Param(<< "participant", "name" >>, Val(2)),
      Param(<< "participantstate", "id" >>, TsParticipantState),
      Param(<< "experiment", "id" >>, TsExperiment),
      Param(<< "measure", "id" >>, IdStr(1, FALSE)),
      Param(<< "participant", "date", "of", "birth" >>, Val(1)),
      Param(<< "recording", "id" >>, TsRecordings[1])
        @@ Param(<< "participant", "id" >>, TsParticipant),
      Param(<< "recording", "id" >>, TsRecordings[2])
        @@ Param(<< "participantstate", "id" >>, TsParticipantState)
        @@ Param(<< "participant", "name" >>, Val(1)),
      Param(<< "recording", "id" >>, TsRecordings[3])
        @@ Param(<< "participant", "id" >>, TsParticipant),
      Param(<< "recording", "id" >>, TsRecordings[1])
        @@ Param(<< "experiment", "experiment_name" >>, Val(1)),
      << >> }

create_time_series(ds, oi) ==
    /\ nextId <= MaxTsIds
    /\ Do("create_time_series", ds, Null, TimeSeriesInOf(oi, 1), 0,
          CreateTimeSeries(store, nextId, TimeSeriesInOf(oi, 1), ds))

get_many_time_series(ds, query_params) ==
    \E out \in GetManyTimeSeries(store, ds, query_params) :
        Do("get_many_time_series", ds, Null, query_params, 0,
           Outcome(store, nextId, out))

update_time_series_properties(ds, id, n) ==
    /\ nextId <= MaxTsIds
    /\ Do("update_time_series_properties", ds, id, TimeSeriesProperties(n), 0,
          UpdateTimeSeriesProperties(store, nextId, TimeSeriesProperties(n), id, ds))

delete_time_series(ds, id) ==
    Do("delete_time_series", ds, id, << >>, 0, DeleteTimeSeries(store, nextId, id, ds))

NextTs ==
    \/ \E ds \in Datasets, oi \in { TsObservableInformations[1],
                                    TsObservableInformations[2], Null } :
          create_time_series(ds, oi)
    \/ \E ds \in Datasets, query_params \in QueryParams :
          get_many_time_series(ds, query_params)
    \/ \E ds \in Datasets, id \in TimeSeriesArgs, n \in 0 .. 1 :
          update_time_series_properties(ds, id, n)
    \/ \E ds \in Datasets, id \in TimeSeriesArgs : delete_time_series(ds, id)

SpecTs == InitTs /\ [][NextTs]_vars

(***************************************************************************)
(* Claims about time series.                                               *)
(***************************************************************************)
\* The ids of the stored series, and the ids of the series a read returned.
StoredSeries(st, ds) ==
    { Rows(st, ds, TIME_SERIES)[i][Meta("id")] : i \in 1 .. Len(Rows(st, ds, TIME_SERIES)) }

ReturnedIds(out) == { series["id"] : series \in out.v }

\* The stored series that are in every one of the found lists.
InAll(st, ds, found) ==
    { StrOfId(id) : id \in { i \in StoredSeries(st, ds) : \A ids \in found : i \in ids.v } }

\* Every key has an entity and a property part, and the id values of the
\* known dimensions are well-formed ids.
WellFormedParams(query_params) ==
    \A key \in DOMAIN query_params :
        /\ Len(key) = 2
        /\ (key[1] \in Dimensions /\ key[2] = "id") => ValidObjectId(query_params[key])

C19_ReplaceAllOrNothing ==
    [][ (last'.op = "update_time_series_properties" /\ IsRaise(result')) =>
          RecordsOf(Rows(store', last'.ds, TIME_SERIES), ObjectId(last'.id, 0))
            = RecordsOf(Rows(store, last'.ds, TIME_SERIES), ObjectId(last'.id, 0)) ]_vars

(***************************************************************************)
(* Appearances and personalities: two sub-kinds of model share each        *)
(* collection (occlusion and somatotype; big five and panas).  A sub-kind  *)
(* is named by its Out class.                                              *)
(***************************************************************************)
AppearanceOcclusionOut == "AppearanceOcclusionOut"
AppearanceSomatotypeOut == "AppearanceSomatotypeOut"
PersonalityBigFiveOut == "PersonalityBigFiveOut"
PersonalityPanasOut == "PersonalityPanasOut"

SubKinds == { AppearanceOcclusionOut, AppearanceSomatotypeOut,
              PersonalityBigFiveOut, PersonalityPanasOut }

\* The service (and collection) of a sub-kind.
SubKindService(kind) ==
    IF kind \in { AppearanceOcclusionOut, AppearanceSomatotypeOut }
    THEN APPEARANCE ELSE PERSONALITY

\* AppearanceServiceMongoDB.get_single / PersonalityServiceMongoDB.get_single:
\* the class the dict read from the collection is returned as.
OutClass(svc, d) ==
    IF svc = APPEARANCE
    THEN (IF Has(d, "glasses") THEN AppearanceOcclusionOut ELSE AppearanceSomatotypeOut)
    ELSE (IF Has(d, "negative_affect") THEN PersonalityPanasOut ELSE PersonalityBigFiveOut)

\* What get_single returns for what get_single_dict returned.
AsOutClass(svc, found) ==
    IF found.t # "doc" THEN found
    ELSE [t |-> "doc", v |-> found.v, class |-> OutClass(svc, found.v)]

GetSubKind(st, fresh, svc, id, ds, depth) ==
    AsOutClass(svc, GetSingleDict(st, fresh, svc, id, ds, depth, ""))

\* The range checks of save and update: the scales of a somatotype lie in
\* 1..7, the traits of a big five and the affects of a panas in 0..1.
Between(lo, x, hi) == lo <= x.v /\ x.v <= hi

\* (mutation of InRange: the bounds themselves are refused)
InRangeOpen(kind, object_in) ==
    CASE kind = AppearanceOcclusionOut -> TRUE
      [] kind = AppearanceSomatotypeOut ->
            \A f \in { "ectomorph", "endomorph", "mesomorph" } :
                1 < object_in[f].v /\ object_in[f].v < 7
      [] OTHER -> \A f \in DOMAIN object_in : 0 < object_in[f].v /\ object_in[f].v < 1

InRange(kind, object_in) ==
    CASE kind = AppearanceOcclusionOut -> TRUE
      [] kind = AppearanceSomatotypeOut ->
            \A f \in { "ectomorph", "endomorph", "mesomorph" } : Between(1, object_in[f], 7)
      [] kind = PersonalityBigFiveOut ->
            \A f \in { "agreeableness", "conscientiousness", "extroversion",
                       "neuroticism", "openess" } : Between(0, object_in[f], 1)
      [] kind = PersonalityPanasOut ->
            \A f \in { "negative_affect", "positive_affect" } : Between(0, object_in[f], 1)

\* The output object carrying errors that a failed range check returns.
RangeError(kind) ==
    IF kind = AppearanceSomatotypeOut THEN Errors("Scale range not between 1 and 7")
    ELSE Errors("Value not between 0 and 1")

\* The outcome of a mixin write, its value as get_single returns it.
ReadAs(outcome, svc) ==
    IF IsRaise(outcome.out) THEN outcome
    ELSE Outcome(outcome.st, outcome.nid, AsOutClass(svc, outcome.out))

\* save_appearance_occlusion, save_appearance_somatotype,
\* save_personality_big_five, save_personality_panas
SaveSubKindOp(st, nid, kind, object_in, ds) ==
    IF ~InRange(kind, object_in) THEN Outcome(st, nid, RangeError(kind))
    ELSE ReadAs(Create(st, nid, SubKindService(kind), object_in, ds), SubKindService(kind))

\* (mutation of UpdateSubKindFound: the class of the document is not looked at)
UpdateSubKindAnyClass(st, nid, kind, id, object_in, ds, get_response) ==
    IF get_response.t # "doc" THEN Outcome(st, nid, get_response)
    ELSE ReadAs(ThenGet(UpdateDocumentWithDict(st, nid, SubKindService(kind), id,
                                               object_in, ds),
                        SubKindService(kind), id, ds),
                SubKindService(kind))

\* An update once get_single returned get_response: a document of the other
\* class of the collection is answered with NotFoundByIdModel, a document of
\* the class is replaced by update_document and read back.
UpdateSubKindFound(st, nid, kind, id, object_in, ds, get_response) ==
    IF get_response.t # "doc" THEN Outcome(st, nid, get_response)
    ELSE IF get_response.class # kind THEN Outcome(st, nid, NotFound(id))
    ELSE ReadAs(ThenGet(UpdateDocumentWithDict(st, nid, SubKindService(kind), id,
                                               object_in, ds),
                        SubKindService(kind), id, ds),
                SubKindService(kind))

\* update_appearance_occlusion, update_appearance_somatotype,
\* update_personality_big_five, update_personality_panas: the range check
\* comes before the document is looked up.
UpdateSubKindOp(st, nid, kind, id, object_in, ds) ==
    IF ~InRange(kind, object_in) THEN Outcome(st, nid, RangeError(kind))
    ELSE UpdateSubKindFound(st, nid, kind, id, object_in, ds,
                            GetSubKind(st, nid, SubKindService(kind), id, ds, 0))

(***************************************************************************)
(* SpecKind: saves, updates and reads of appearances and personalities.    *)
(***************************************************************************)
\* Number of ObjectIds generated under SpecKind.
MaxKindIds == 2

\* An In model of each sub-kind whose fields pass its range check.
SubKindDefault(kind) ==
    CASE kind = AppearanceOcclusionOut ->
            [glasses |-> Val(1), beard |-> Val(1), moustache |-> Val(1)]
      [] kind = AppearanceSomatotypeOut ->
            [ectomorph |-> Val(1), endomorph |-> Val(1), mesomorph |-> Val(7)]
      [] kind = PersonalityBigFiveOut ->
            [agreeableness |-> Val(0), conscientiousness |-> Val(0),
             extroversion |-> Val(1), neuroticism |-> Val(0), openess |-> Val(1)]
      [] kind = PersonalityPanasOut ->
            [negative_affect |-> Val(0), positive_affect |-> Val(1)]

\* The inputs of the operations of each sub-kind, as pairs of a field and
\* the value given to it: two texts for the glasses of an occlusion; for
\* the first field of the others both bounds of its range and a value on
\* either side of it, for every other field a value on either side of its
\* range (the default of such a field is one of the bounds).
SubKindValues(kind) ==
    CASE kind = AppearanceOcclusionOut -> { <<"glasses", 1>>, <<"glasses", 2>> }
      [] kind = AppearanceSomatotypeOut ->
            ({ "ectomorph" } \X { 0, 1, 7, 8 })
               \cup ({ "endomorph", "mesomorph" } \X { 0, 8 })
      [] kind = PersonalityBigFiveOut ->
            ({ "agreeableness" } \X { -1, 0, 1, 2 })
               \cup ({ "conscientiousness", "extroversion", "neuroticism", "openess" }
                        \X { -1, 2 })
      [] kind = PersonalityPanasOut ->
            ({ "negative_affect" } \X { -1, 0, 1, 2 })
               \cup ({ "positive_affect" } \X { -1, 2 })

\* The In model of a sub-kind with the value x[2] in its field x[1].
SubKindIn(kind, x) == [SubKindDefault(kind) EXCEPT ![x[1]] = Val(x[2])]

\* The names of the operations of a sub-kind.
SubKindName(kind) ==
    CASE kind = AppearanceOcclusionOut -> "appearance_occlusion"
      [] kind = AppearanceSomatotypeOut -> "appearance_somatotype"
      [] kind = PersonalityBigFiveOut -> "personality_big_five"
      [] kind = PersonalityPanasOut -> "personality_panas"

SubKindIds == { IdStr(n, FALSE) : n \in 1 .. 2 }

SaveSubKind(ds, kind, x) ==
    /\ nextId <= MaxKindIds
    /\ Do("save_" \o SubKindName(kind), ds, Null, SubKindIn(kind, x), 0,
          SaveSubKindOp(store, nextId, kind, SubKindIn(kind, x), ds))

UpdateSubKind(ds, kind, id, x) ==
    Do("update_" \o SubKindName(kind), ds, id, SubKindIn(kind, x), 0,
       UpdateSubKindOp(store, nextId, kind, id, SubKindIn(kind, x), ds))

save_appearance_occlusion(ds, x) == SaveSubKind(ds, AppearanceOcclusionOut, x)
save_appearance_somatotype(ds, x) == SaveSubKind(ds, AppearanceSomatotypeOut, x)
save_personality_big_five(ds, x) == SaveSubKind(ds, PersonalityBigFiveOut, x)
save_personality_panas(ds, x) == SaveSubKind(ds, PersonalityPanasOut, x)
update_appearance_occlusion(ds, id, x) == UpdateSubKind(ds, AppearanceOcclusionOut, id, x)
update_appearance_somatotype(ds, id, x) == UpdateSubKind(ds, AppearanceSomatotypeOut, id, x)
update_personality_big_five(ds, id, x) == UpdateSubKind(ds, PersonalityBigFiveOut, id, x)
update_personality_panas(ds, id, x) == UpdateSubKind(ds, PersonalityPanasOut, id, x)

get_appearance(ds, id) ==
    Do("get_appearance", ds, id, << >>, 0,
       Outcome(store, nextId, GetSubKind(store, nextId, APPEARANCE, id, ds, 0)))

get_personality(ds, id) ==
    Do("get_personality", ds, id, << >>, 0,
       Outcome(store, nextId, GetSubKind(store, nextId, PERSONALITY, id, ds, 0)))

NextKind ==
    \/ \E ds \in Datasets, x \in SubKindValues(AppearanceOcclusionOut) :
          save_appearance_occlusion(ds, x)
    \/ \E ds \in Datasets, x \in SubKindValues(AppearanceSomatotypeOut) :
          save_appearance_somatotype(ds, x)
    \/ \E ds \in Datasets, x \in SubKindValues(PersonalityBigFiveOut) :
          save_personality_big_five(ds, x)
    \/ \E ds \in Datasets, x \in SubKindValues(PersonalityPanasOut) :
          save_personality_panas(ds, x)
    \/ \E ds \in Datasets, id \in SubKindIds, x \in SubKindValues(AppearanceOcclusionOut) :
          update_appearance_occlusion(ds, id, x)
    \/ \E ds \in Datasets, id \in SubKindIds, x \in SubKindValues(AppearanceSomatotypeOut) :
          update_appearance_somatotype(ds, id, x)
    \/ \E ds \in Datasets, id \in SubKindIds, x \in SubKindValues(PersonalityBigFiveOut) :
          update_personality_big_five(ds, id, x)
    \/ \E ds \in Datasets, id \in SubKindIds, x \in SubKindValues(PersonalityPanasOut) :
          update_personality_panas(ds, id, x)
    \/ \E ds \in Datasets, id \in SubKindIds : get_appearance(ds, id)
    \/ \E ds \in Datasets, id \in SubKindIds : get_personality(ds, id)

SpecKind == Init /\ [][NextKind]_vars

(***************************************************************************)
(* Claims about the sub-kinds of appearances and personalities.            *)
(***************************************************************************)
\* The sub-kind an update operation is for.
IsSubKindUpdate(op) == \E kind \in SubKinds : op = "update_" \o SubKindName(kind)
UpdatedKind(op) == CHOOSE kind \in SubKinds : op = "update_" \o SubKindName(kind)

\* The class the document with the id is read back as.
StoredClass(st, ds, svc, id) == OutClass(svc, RowOf(st, ds, svc, id))

\* The update l finds, in store st, a document of the other sub-kind.
CrossKind(l, st) ==
    /\ Stored(st, l.ds, SubKindService(UpdatedKind(l.op)), l.id)
    /\ StoredClass(st, l.ds, SubKindService(UpdatedKind(l.op)), l.id) # UpdatedKind(l.op)

\* No document of the two collections is read back as another sub-kind
\* after the step than before it.
SubKindsKept(st, new) ==
    \A ds \in Datasets, svc \in { APPEARANCE, PERSONALITY }, id \in SubKindIds :
        (Stored(st, ds, svc, id) /\ Stored(new, ds, svc, id)) =>
            StoredClass(new, ds, svc, id) = StoredClass(st, ds, svc, id)

\* C20 as stated: an update with input of the other sub-kind of the
\* collection returns NotFound and leaves the store unchanged, and no update
\* changes the sub-kind a document is read back as.
C20_CrossKindNotFound ==
    [][ IsSubKindUpdate(last'.op) =>
          /\ CrossKind(last', store) =>
                (result' = NotFound(last'.id) /\ store' = store)
          /\ SubKindsKept(store, store') ]_vars

\* C20, amended: an update with input of the other sub-kind leaves the
\* store unchanged and returns NotFound when the input passes the range
\* check of its sub-kind, and the output object carrying the range error
\* when it does not; no update changes the sub-kind a document is read back
\* as.
C20_CrossKindRefused ==
    [][ IsSubKindUpdate(last'.op) =>
          /\ CrossKind(last', store) =>
                /\ store' = store
                /\ result' = IF InRange(UpdatedKind(last'.op), last'.arg)
                             THEN NotFound(last'.id)
                             ELSE RangeError(UpdatedKind(last'.op))
          /\ SubKindsKept(store, store') ]_vars

\* An occlusion was updated with a somatotype whose scales are in range, and
\* NotFound was returned.
C20_Witness ==
    /\ last.op = "update_appearance_somatotype"
    /\ InRange(AppearanceSomatotypeOut, last.arg)
    /\ Stored(store, last.ds, APPEARANCE, last.id)
    /\ StoredClass(store, last.ds, APPEARANCE, last.id) = AppearanceOcclusionOut
    /\ result = NotFound(last.id)

(***************************************************************************)
(* Claims about the range checks of big fives and somatotypes.             *)
(***************************************************************************)
\* The sub-kinds whose fields have a range, and the range of each.
RangedKinds == { PersonalityBigFiveOut, AppearanceSomatotypeOut }
LowestOf(kind) == IF kind = AppearanceSomatotypeOut THEN 1 ELSE 0
HighestOf(kind) == IF kind = AppearanceSomatotypeOut THEN 7 ELSE 1

\* Every field of the input lies within the range of the sub-kind, the
\* bounds included.
WithinBounds(kind, object_in) ==
    \A f \in DOMAIN object_in :
        LowestOf(kind) <= object_in[f].v /\ object_in[f].v <= HighestOf(kind)

\* The result is the document with the fields of the input, as sub-kind kind.
SucceededWith(out, kind, object_in) ==
    /\ out.t = "doc"
    /\ out.class = kind
    /\ \A f \in DOMAIN object_in : Has(out.v, f) /\ out.v[f] = object_in[f]

\* C21: a save or an update of a big five or of a somatotype whose fields
\* are all within the range (0..1, 1..7, bounds included) is not refused: the
\* save returns the saved document and the update of a stored document of
\* the sub-kind returns the updated one; with a field outside the range the
\* call returns an output object carrying errors, raises nothing and leaves
\* the store as it was.
C21_RangeChecked ==
    [][ \A kind \in RangedKinds :
          last'.op \in { "save_" \o SubKindName(kind), "update_" \o SubKindName(kind) } =>
             IF WithinBounds(kind, last'.arg)
             THEN /\ result'.t # "errors"
                  /\ last'.op = "save_" \o SubKindName(kind) =>
                        SucceededWith(result', kind, last'.arg)
                  /\ ( /\ last'.op = "update_" \o SubKindName(kind)
                       /\ Stored(store, last'.ds, SubKindService(kind), last'.id)
                       /\ StoredClass(store, last'.ds, SubKindService(kind), last'.id) = kind )
                        => SucceededWith(result', kind, last'.arg)
             ELSE /\ result'.t = "errors"
                  /\ ~IsRaise(result')
                  /\ store' = store ]_vars

\* A stored big five was updated with a trait at the upper bound, and the
\* store holds the new value.
C21_Witness ==
    /\ last.op = "update_personality_big_five"
    /\ last.arg["agreeableness"] = Val(1)
    /\ SucceededWith(result, PersonalityBigFiveOut, last.arg)
    /\ Stored(store, last.ds, PERSONALITY, last.id)
    /\ RowOf(store, last.ds, PERSONALITY, last.id)["agreeableness"] = Val(1)

\* A somatotype with a scale above 7 was refused.
C21_WitnessRefused ==
    /\ last.op = "save_appearance_somatotype"
    /\ last.arg["mesomorph"] = Val(8)
    /\ result.t = "errors"

(***************************************************************************)
(* SpecDs: the operations on registered data and registered channels,      *)
(* called with the names of two datasets and with the empty name.          *)
(***************************************************************************)
\* The databases that hold documents: the default one and a second dataset.
Namespaces == { mongo_database_name, "study" }

\* The dataset ids a caller passes.
DatasetArgs == Namespaces \cup { "" }

InitDs ==
    /\ InitTrav
    /\ store = [ds \in Namespaces |-> [c \in StoredCollections |-> << >>]]
    /\ nextId = 1
    /\ result = Null
    /\ last = Op("", "", Null, << >>, 0)
    /\ requests = [r \in Requests |-> Idle]

\* RegisteredDataServiceMongoDB.get_registered_data_nodes
GetRegisteredDataNodesOp(st, fresh, ds) ==
    GetMultiple(st, fresh, REGISTERED_DATA, ds, << >>, 0, "", NoProjection)

get_registered_data_nodes(ds) ==
    Do("get_registered_data_nodes", ds, Null, << >>, 0,
       Outcome(store, nextId, GetRegisteredDataNodesOp(store, nextId, ds)))

NextDs ==
    \/ \E ds \in DatasetArgs, v \in Values : save_registered_data(ds, v)
    \/ \E ds \in DatasetArgs, id \in IdArgs, depth \in ReadDepths :
          get_registered_data(ds, id, depth)
    \/ \E ds \in DatasetArgs : get_registered_data_nodes(ds)
    \/ \E ds \in DatasetArgs, id \in IdArgs, v \in Values : update_registered_data(ds, id, v)
    \/ \E ds \in DatasetArgs, id \in IdArgs : delete_registered_data(ds, id)
    \/ \E ds \in DatasetArgs, rd \in FkArgs : save_registered_channel(ds, Null, rd)

SpecDs == InitDs /\ [][NextDs]_vars

(***************************************************************************)
(* Claims about the isolation of datasets (checked under SpecDs).          *)
(***************************************************************************)
\* The outcome of the operation recorded in l when it is run on store st.
OutcomeOn(st, nid, l) ==
    CASE l.op = "save_registered_data" -> SaveRegisteredDataOp(st, nid, l.arg, l.ds)
      [] l.op = "get_registered_data" ->
            Outcome(st, nid, GetSingleDict(st, nid, REGISTERED_DATA, l.id, l.ds, l.depth, ""))
      [] l.op = "get_registered_data_nodes" ->
            Outcome(st, nid, GetRegisteredDataNodesOp(st, nid, l.ds))
      [] l.op = "update_registered_data" -> UpdateRegisteredDataOp(st, nid, l.id, l.arg, l.ds)
      [] l.op = "delete_registered_data" -> DeleteRegisteredDataOp(st, nid, l.id, l.ds)
      [] l.op = "save_registered_channel" -> SaveRegisteredChannelOp(st, nid, l.arg, l.ds)

\* The stores that agree with st on dataset d: in every other dataset the
\* documents are those of st, none, or those st holds in the other database.
AgreeingOn(st, d) ==
    { [n \in Namespaces |-> IF n = d THEN st[n] ELSE other[n]] :
        other \in { st,
                    [n \in Namespaces |-> [c \in StoredCollections |-> << >>]],
                    [n \in Namespaces |-> st[CHOOSE m \in Namespaces : m # n]] } }

\* C22: an operation invoked with dataset id d leaves the documents of every
\* other dataset unchanged, and run on any store that agrees on d it returns
\* the same result, for every d a caller can pass (the empty name included).
C22_DatasetIsolated ==
    [][ last'.op # "" =>
          /\ \A n \in Namespaces \ { last'.ds } : store'[n] = store[n]
          /\ \A other \in AgreeingOn(store, last'.ds) :
                OutcomeOn(other, nextId, last').out = result' ]_vars

(***************************************************************************)
(* SpecRef: registered channels read at depth 0 and 1 while the registered *)
(* data they refer to are saved and deleted.                               *)
(***************************************************************************)
\* RegisteredChannelServiceMongoDB.get_registered_channel
get_registered_channel(ds, id, depth) ==
    Do("get_registered_channel", ds, id, << >>, depth,
       Outcome(store, nextId,
               GetSingleDict(store, nextId, REGISTERED_CHANNEL, id, ds, depth, "")))

NextRef ==
    \/ \E ds \in Datasets, v \in Values : save_registered_data(ds, v)
    \/ \E ds \in Datasets, id \in IdArgs : delete_registered_data(ds, id)
    \/ \E ds \in Datasets, rd \in FkArgs : save_registered_channel(ds, Null, rd)
    \/ \E ds \in Datasets, id \in IdArgs, depth \in ReadDepths :
          get_registered_channel(ds, id, depth)

SpecRef == Init /\ [][NextRef]_vars

(***************************************************************************)
(* Claims about reads of documents whose foreign id resolves to nothing    *)
(* (checked under SpecRef).                                                *)
(***************************************************************************)
\* The foreign id fk of the stored document d refers to no stored document
\* of collection c.
Dangling(st, ds, d, fk, c) ==
    /\ d[fk] # Null
    /\ \A i \in 1 .. Len(Rows(st, ds, c)) : Rows(st, ds, c)[i]["_id"] # d[fk]

\* C23: a read at depth >= 1 of a stored registered channel whose registered
\* data does not exist returns the registered channel with the field
\* registered_data left out or null: the NotFound result of the neighbour
\* fetch is not stored in the field and the read does not fail.
C23_DanglingAbsorbed ==
    [][ ( /\ last'.op = "get_registered_channel"
          /\ last'.depth >= 1
          /\ Stored(store, last'.ds, REGISTERED_CHANNEL, last'.id)
          /\ Dangling(store, last'.ds,
                      RowOf(store, last'.ds, REGISTERED_CHANNEL, last'.id),
                      "registered_data_id", REGISTERED_DATA) )
        => /\ result'.t = "doc"
           /\ \/ ~Has(result'.v, "registered_data")
              \/ result'.v["registered_data"] = Null ]_vars

(***************************************************************************)
(* The relationships of a recording.                                       *)
(***************************************************************************)
\* update_recording_relationships once the recording, the registered channel
\* and the participation of the input have been looked up (in this order;
\* both failed lookups are reported with the registered channel's id).
RecordingRelated(st, nid, id, recording, ds, existing_recording, related_registered_channel, related_participation) ==
    IF existing_recording.t # "doc" THEN Outcome(st, nid, existing_recording)
    ELSE IF IsRaise(related_registered_channel)
         THEN Outcome(st, nid, related_registered_channel)
    ELSE IF related_registered_channel.t # "doc"
         THEN Outcome(st, nid, NotFound(recording["registered_channel_id"]))
    ELSE IF IsRaise(related_participation)
         THEN Outcome(st, nid, related_participation)
    ELSE IF related_participation.t # "doc"
         THEN Outcome(st, nid, NotFound(recording["registered_channel_id"]))
    ELSE Update(st, nid, RECORDING, id, Merged(existing_recording.v, recording), ds)

\* RecordingServiceMongoDB.update_recording_relationships
UpdateRecordingRelationshipsOp(st, nid, id, recording, ds) ==
    RecordingRelated(st, nid, id, recording, ds,
        GetSingle(st, nid, RECORDING, id, ds),
        GetSingle(st, nid, REGISTERED_CHANNEL, recording["registered_channel_id"], ds),
        GetSingle(st, nid, PARTICIPATION, recording["participation_id"], ds))

(***************************************************************************)
(* SpecRel: recordings saved, re-related and read in a dataset that holds  *)
(* two registered channels and a participation.                            *)
(***************************************************************************)
RelChannels == << IdStr(1, FALSE), IdStr(2, FALSE) >>
RelParticipation == IdStr(3, FALSE)

FirstChannel ==
    SaveRegisteredChannelOp(EmptyStore, 1,
        [channel_id |-> Null, registered_data_id |-> Null], mongo_database_name)
SecondChannel ==
    SaveRegisteredChannelOp(FirstChannel.st, FirstChannel.nid,
        [channel_id |-> Null, registered_data_id |-> Null], mongo_database_name)
RelPrepared ==
    SaveParticipationOp(SecondChannel.st, SecondChannel.nid,
        [activity_execution_id |-> Null, participant_state_id |-> Null],
        mongo_database_name)

InitRel ==
    /\ InitTrav
    /\ store = RelPrepared.st
    /\ nextId = RelPrepared.nid
    /\ result = Null
    /\ last = Op("", "", Null, << >>, 0)
    /\ requests = [r \in Requests |-> Idle]

\* The ids the requests carry: of the recordings saved, of the registered
\* channels, of the participation; IdStr(0) is an id nothing has.
RelRecordingArgs == { IdStr(n, FALSE) : n \in { 0 } \cup (4 .. MaxRecIds) }
RelChannelArgs == { Null, RelChannels[1], RelChannels[2], IdStr(0, FALSE) }
RelParticipationArgs == { Null, RelParticipation, IdStr(0, FALSE) }

update_recording_relationships(ds, id, part, rc) ==
    LET x == [participation_id |-> part, registered_channel_id |-> rc] IN
    Do("update_recording_relationships", ds, id, x, 0,
       UpdateRecordingRelationshipsOp(store, nextId, id, x, ds))

get_recording(ds, id) ==
    Do("get_recording", ds, id, << >>, 0,
       Outcome(store, nextId, GetSingle(store, nextId, RECORDING, id, ds)))

NextRel ==
    \/ \E ds \in Datasets, part \in RelParticipationArgs, rc \in RelChannelArgs :
          save_recording(ds, part, rc)
    \/ \E ds \in Datasets, id \in RelRecordingArgs,
          part \in RelParticipationArgs, rc \in RelChannelArgs :
          update_recording_relationships(ds, id, part, rc)
    \/ \E ds \in Datasets, id \in RelRecordingArgs : get_recording(ds, id)

SpecRel == InitRel /\ [][NextRel]_vars

(***************************************************************************)
(* Claims about the relationships of a recording (checked under SpecRel).  *)
(***************************************************************************)
\* C24: update_recording_relationships(id, r) on a stored recording, with
\* r.registered_channel_id the id of a stored registered channel and
\* r.participation_id null or the id of a stored participation, returns the
\* recording, and a get_recording(id) that follows returns
\* r.registered_channel_id as its registered channel id.
C24_RelationshipsUpdated ==
    [][ ( /\ last'.op = "update_recording_relationships"
          /\ Stored(store, last'.ds, RECORDING, last'.id)
          /\ Stored(store, last'.ds, REGISTERED_CHANNEL, last'.arg["registered_channel_id"])
          /\ \/ last'.arg["participation_id"] = Null
             \/ Stored(store, last'.ds, PARTICIPATION, last'.arg["participation_id"]) )
        => /\ result'.t = "doc"
           /\ GetSingle(store', nextId', RECORDING, last'.id, last'.ds).t = "doc"
           /\ GetSingle(store', nextId', RECORDING, last'.id, last'.ds).v["registered_channel_id"]
                 = last'.arg["registered_channel_id"] ]_vars

(***************************************************************************)
(* Specification SpecAdd: two requests add an observable information       *)
(* concurrently.  As under SpecConc a step is the reads up to, or the      *)
(* write of, one replace of a recording.                                   *)
(***************************************************************************)
\* save_observable_information up to the write of add_observable_information:
\* the recording is looked up, the new child given its id and appended to
\* the copy of the recording that was read.
BeginAdd(nid, observable_information, ds, recording) ==
    IF IsRaise(recording) THEN Done(recording)
    ELSE IF recording.t # "doc" THEN Done(Errors("given recording does not exist"))
    ELSE Running("adding", ds, StrOfId(Oid(nid)),
                 With(observable_information, "id", StrOfId(Oid(nid))),
                 observable_information["recording_id"],
                 With(recording.v, OBSERVABLE_INFORMATION,
                      Emb(Append(ChildrenIn(recording.v, OBSERVABLE_INFORMATION),
                                 With(observable_information, "id", StrOfId(Oid(nid)))))))

begin_add(r, ds, rec) ==
    /\ requests[r] = Idle
    /\ RecIdsLeft
    /\ requests' = [requests EXCEPT ![r] =
          BeginAdd(nextId,
                   [recording_id |-> rec, modality_id |-> Null, life_activity_id |-> Null],
                   ds, GetSingle(store, nextId + 1, RECORDING, rec, ds))]
    /\ nextId' = nextId + 1
    /\ UNCHANGED <<travVars, store, result, last>>

\* (mutation of WriteAdded: the child is pushed onto the stored list)
WriteAddedPushed(st, nid, req) ==
    IF ~Stored(st, req.ds, RECORDING, req.parentId) THEN Outcome(st, nid, NotFound(req.parentId))
    ELSE Update(st, nid, RECORDING, req.parentId,
                With(req.local, OBSERVABLE_INFORMATION,
                     Emb(Append(ChildrenIn(
                                   UpdateMongoOutputId(RowOf(st, req.ds, RECORDING, req.parentId)),
                                   OBSERVABLE_INFORMATION),
                                req.child))),
                req.ds)

\* self.update(recording_id, RecordingOut(**recording), dataset_id) of
\* add_observable_information: the recording is replaced by the copy read
\* at the beginning, with the child appended.
WriteAdded(st, nid, req) ==
    Update(st, nid, RECORDING, req.parentId, req.local, req.ds)

\* The end of add_observable_information: a NotFoundByIdModel returned by
\* update is not looked at, the new child is returned.
write_added(r) ==
    /\ requests[r].pc = "adding"
    /\ Wrote(r, WriteAdded(store, nextId, requests[r]), Done(Doc(requests[r].child)))

NextAdd ==
    \/ \E ds \in Datasets : save_recording(ds, Null, Null)
    \/ \E r \in Requests, ds \in Datasets,
          rec \in { IdStr(0, FALSE), IdStr(1, FALSE), IdStr(2, FALSE) } : begin_add(r, ds, rec)
    \/ \E r \in Requests : write_added(r)
    \/ \E ds \in Datasets, id \in { IdStr(1, FALSE), IdStr(2, FALSE) } : get_recording(ds, id)

SpecAdd == Init /\ [][NextAdd]_vars

(***************************************************************************)
(* Claim about concurrent writes to one parent (checked under SpecAdd).    *)
(***************************************************************************)
\* The ids of the children in a list of embedded documents.
ChildIds(children) == { children[i]["id"] : i \in 1 .. Len(children) }

\* The ids of the observable informations the dataset stores in the
\* recording.
StoredIn(st, ds, recording_id) ==
    { StrOfId(x) : x \in ChildIds(ChildrenIn(RowOf(st, ds, RECORDING, recording_id),
                                             OBSERVABLE_INFORMATION)) }

\* Request q has returned its new child, which went into the recording
\* request r is about to replace, and r read the recording before q wrote.
ReadBeforeWrite(r, q) ==
    /\ r # q
    /\ requests[r].pc = "adding"
    /\ requests[q].pc = "done"
    /\ requests[q].out.t = "doc"
    /\ requests[q].out.v["recording_id"] = requests[r].parentId
    /\ requests[q].out.v["id"] \notin ChildIds(requests[r].local[OBSERVABLE_INFORMATION].v)
    /\ Stored(store, requests[r].ds, RECORDING, requests[r].parentId)

\* C25: when two requests add a child to the same recording and the second
\* to write read the recording before the first wrote, the second's replace
\* of the recording wins: it returns its child like the first did, and the
\* recording then holds the second's child and no longer the first's.
C25_LastWriteWins ==
    [][ \A r, q \in Requests :
          (ReadBeforeWrite(r, q) /\ requests'[r].pc = "done") =>
             /\ requests'[r].out = Doc(requests[r].child)
             /\ requests[r].id \in StoredIn(store', requests[r].ds, requests[r].parentId)
             /\ requests[q].out.v["id"]
                   \notin StoredIn(store', requests[r].ds, requests[r].parentId) ]_vars

\* Both requests have returned the child they added to the same recording,
\* and the recording holds only one of the two.
C25_Witness ==
    /\ \A r \in Requests : requests[r].pc = "done" /\ requests[r].out.t = "doc"
    /\ requests["A"].out.v["recording_id"] = requests["B"].out.v["recording_id"]
    /\ Stored(store, mongo_database_name, RECORDING, requests["A"].out.v["recording_id"])
    /\ Cardinality(StoredIn(store, mongo_database_name, requests["A"].out.v["recording_id"])
                     \cap { requests["A"].out.v["id"], requests["B"].out.v["id"] }) = 1

(***************************************************************************)
(* Claim about the states between the writes of one embedded operation     *)
(* (checked under SpecConc).                                               *)
(***************************************************************************)
\* No request other than r is between its first read and its last write.
RunsAlone(r) == \A q \in Requests \ { r } : requests[q].pc \in { "idle", "done" }

\* C26: while a request updates an observable information and no other
\* request runs, every write it makes leaves the store either as it was
\* before the update or as the completed update leaves it: no reader, and no
\* crash after the write, finds a third list (one without the child).
C26_BeforeOrAfter ==
    [][ \A r \in Requests :
          ( /\ requests[r].pc = "removing"
            /\ requests'[r] # requests[r]
            /\ RunsAlone(r) )
          => store' \in { store,
                          UpdateEmbedded(store, nextId, OBSERVABLE_INFORMATION,
                                         requests[r].id, requests[r].child,
                                         "recording_id", requests[r].ds).st } ]_vars

(***************************************************************************)
(* The frame of a parent's own update (checked under Spec).                *)
(***************************************************************************)
\* The embedded child a get of the given id returns from store st.
ReadableChild(st, nid, ds, id) == GetSingleDict(st, nid, ACTIVITY_EXECUTION, id, ds, 0, "")

\* C27: an update of a parent's own properties (update_activity) leaves its
\* embedded list as it was: every activity execution that a get returned
\* before the update is returned, unchanged, by a get after it.
C27_EmbeddedListKept ==
    [][ last'.op = "update_activity" =>
          \A id \in IdArgs :
             ReadableChild(store, nextId, last'.ds, id).t = "doc" =>
                ReadableChild(store', nextId', last'.ds, id)
                   = ReadableChild(store, nextId, last'.ds, id) ]_vars

\* The places (scenario, branch, position) at which the stored scenarios hold id.
PlacesOf(st, id) ==
    { p \in (1 .. Len(Scenarios(st))) \X (1 .. MaxScenIds) \X (1 .. MaxScenIds) :
        /\ p[2] <= Len(StoredBranches(st, p[1]))
        /\ p[3] <= Len(StoredBranches(st, p[1])[p[2]].v)
        /\ StoredBranches(st, p[1])[p[2]].v[p[3]] = id }

\* C28: an activity-execution id x held by a scenario before
\* change_order(x, p) is held at exactly one place of exactly one scenario
\* after it, whatever p is; a call that returns without an error has not
\* dropped x.
C28_ChangeOrderKeeps ==
    [][ (last'.op = "change_order" /\ PlacesOf(store, Moved(last')) # {}) =>
          /\ Cardinality(PlacesOf(store', Moved(last'))) = 1
          /\ (PlacesOf(store', Moved(last')) = {}) =>
                (result'.t = "errors" \/ IsRaise(result')) ]_vars

(***************************************************************************)
(* SpecPar: embedded children read with their parent attached.  Recordings *)
(* with observable informations and participants with participant states   *)
(* are saved as under SpecEmb; the children are read one by one and        *)
(* through get_multiple, at depth 0 and 1, for a caller that is or is not  *)
(* the parent kind.                                                        *)
(***************************************************************************)
ParKinds == { OBSERVABLE_INFORMATION, PARTICIPANT_STATE }
ParDepths == 0 .. 1
ParSources(kind) == { "", ParentOf(kind) }

\* get_observable_information / get_participant_state
GetChildAt(ds, kind, id, depth) ==
    Do(OpOn("get", kind), ds, id, << >>, depth,
       Outcome(store, nextId, GetSingleDict(store, nextId, kind, id, ds, depth, "")))

\* get_multiple of the kind's service with an empty query.
GetChildren(ds, kind, depth, source) ==
    Do(OpOn("get_multiple", kind), ds, Null, [source |-> source], depth,
       Outcome(store, nextId,
               GetMultiple(store, nextId, kind, ds, << >>, depth, source, NoProjection)))

NextPar ==
    \/ \E ds \in Datasets, kind \in ParKinds : SaveParent(ds, ParentOf(kind), Val(1))
    \/ \E ds \in Datasets, kind \in ParKinds, parent \in ParentArgs :
          SaveChild(ds, kind, parent)
    \/ \E ds \in Datasets, kind \in ParKinds, id \in ChildArgs, depth \in ParDepths :
          GetChildAt(ds, kind, id, depth)
    \/ \E ds \in Datasets, kind \in ParKinds, depth \in ParDepths :
          \E source \in ParSources(kind) : GetChildren(ds, kind, depth, source)

SpecPar == Init /\ [][NextPar]_vars

\* The returned child carries, under its parent field, one document whose id
\* is the child's parent id.
HasItsParent(kind, child) ==
    /\ Has(child, EmbeddedParentField(kind))
    /\ child[EmbeddedParentField(kind)].t = "doc"
    /\ child[EmbeddedParentField(kind)].v["id"] = child[ParentFk(kind)]

\* C29: every embedded child that a get-single or a get-many returns at depth
\* >= 1 to a caller other than its parent kind has its parent attached: the
\* one document that holds it, whose id is the child's parent id, never a
\* list of parents and never another child's parent.
C29_ParentAttached ==
    \A kind \in ParKinds :
       /\ (last.op = OpOn("get", kind) /\ last.depth >= 1 /\ result.t = "doc") =>
             HasItsParent(kind, result.v)
       /\ (/\ last.op = OpOn("get_multiple", kind)
           /\ last.depth >= 1
           /\ last.arg["source"] # ParentOf(kind)
           /\ result.t = "docs") =>
             \A i \in 1 .. Len(result.v) : HasItsParent(kind, result.v[i])

\* The same for the children read one by one, and for the observable
\* informations get_multiple returns.
C29_SingleParentAttached ==
    /\ \A kind \in ParKinds :
          (last.op = OpOn("get", kind) /\ last.depth >= 1 /\ result.t = "doc") =>
             HasItsParent(kind, result.v)
    /\ (/\ last.op = OpOn("get_multiple", OBSERVABLE_INFORMATION)
        /\ last.depth >= 1
        /\ last.arg["source"] # RECORDING
        /\ result.t = "docs") =>
          \A i \in 1 .. Len(result.v) : HasItsParent(OBSERVABLE_INFORMATION, result.v[i])

\* C30: every embedded child stored inside a parent document has that
\* parent's id in its parent-id field (activity_id, recording_id,
\* participant_id), whatever sequence of saves, updates, relationship
\* updates and deletes led to the store.
C30_ChildNamesItsParent ==
    \A ds \in Datasets, kind \in EmbeddedKinds :
       \A i \in 1 .. Len(Rows(store, ds, ParentOf(kind))) :
          \A j \in 1 .. Len(StoredChildren(store, ds, kind, i)) :
             StoredChildren(store, ds, kind, i)[j][ParentFk(kind)]
                = Rows(store, ds, ParentOf(kind))[i]["_id"]

(***************************************************************************)
(* SpecMove: SpecEmb with the relationship update of activity executions,  *)
(* which like that of observable informations can name another parent.     *)
(***************************************************************************)
\* update_activity_execution_relationships on the execution and the activity
\* its two reads returned: the new activity has to exist, the arrangement
\* only when one is named; the input's fields are then set on the existing
\* model and the activity's service writes it.
UpdateRelationshipsFound(st, nid, id, activity_execution, ds, existing, related_activity) ==
    IF IsRaise(existing) THEN Outcome(st, nid, existing)
    ELSE IF existing.t # "doc" THEN Outcome(st, nid, existing)
    ELSE IF IsRaise(related_activity) THEN Outcome(st, nid, related_activity)
    ELSE IF related_activity.t # "doc"
         THEN Outcome(st, nid, Errors("given activity does not exist"))
         ELSE Checked(st, nid,
                 CheckRelated(st, nid,
                     << <<ARRANGEMENT, activity_execution["arrangement_id"],
                          "given arrangement does not exist">> >>, ds),
                 WriteChild(st, nid, ACTIVITY_EXECUTION, id,
                     [f \in DOMAIN existing.v \cup DOMAIN activity_execution |->
                         IF f \in DOMAIN activity_execution
                         THEN activity_execution[f] ELSE existing.v[f]],
                     ds))

\* ActivityExecutionServiceMongoDB.update_activity_execution_relationships
UpdateActivityExecutionRelationshipsOp(st, nid, id, activity_execution, ds) ==
    UpdateRelationshipsFound(st, nid, id, activity_execution, ds,
        GetSingle(st, nid, ACTIVITY_EXECUTION, id, ds),
        GetSingle(st, nid, ACTIVITY, activity_execution["activity_id"], ds))

update_activity_execution_relationships(ds, id, act) ==
    LET x == [activity_id |-> act, arrangement_id |-> Null] IN
    Do("update_activity_execution_relationships", ds, id, x, 0,
       UpdateActivityExecutionRelationshipsOp(store, nextId, id, x, ds))

\* ParticipantStateServiceMongoDB.update_participant_state_relationships
update_participant_state_relationships(ds, id, par) ==
    LET x == [participant_id |-> par, personality_ids |-> Null, appearance_ids |-> Null] IN
    Do("update_participant_state_relationships", ds, id, x, 0,
       UpdateEmbeddedOp(store, nextId, PARTICIPANT_STATE, id, x, ds))

NextMove ==
    \/ NextEmb
    \/ \E ds \in Datasets, id \in ChildArgs, act \in ParentArgs :
          update_activity_execution_relationships(ds, id, act)
    \/ \E ds \in Datasets, id \in ChildArgs, par \in ParentArgs :
          update_participant_state_relationships(ds, id, par)

SpecMove == Init /\ [][NextMove]_vars

\* The _id of every parent whose embedded list holds the child.
HoldersOf(st, ds, kind, id) ==
    { Rows(st, ds, ParentOf(kind))[i]["_id"] :
        i \in { k \in 1 .. Len(Rows(st, ds, ParentOf(kind))) :
                  \E j \in 1 .. Len(StoredChildren(st, ds, kind, k)) :
                     StoredChildren(st, ds, kind, k)[j]["id"] = Oid(id.v) } }

\* The last operation is an update of an embedded child that names a parent.
NamesParent(l, kind) ==
    /\ l.op \in { OpOn("update", kind), OpOn("update", kind) \o "_relationships" }
    /\ Has(l.arg, ParentFk(kind))

\* C30 (with its second half): the store keeps every embedded child under
\* the parent its parent-id field names, and an update that names another
\* parent than the one holding the child either moves the child into that
\* parent or fails and leaves the child where it was.
C30_MovedOrKept ==
    [][ /\ C30_ChildNamesItsParent'
        /\ \A kind \in EmbeddedKinds :
              (/\ NamesParent(last', kind)
               /\ StoredChild(store, last'.ds, kind, last'.id)
               /\ ~SameParent(store, last'.ds, kind, last'.id, last'.arg)) =>
                 \/ HoldersOf(store', last'.ds, kind, last'.id)
                       = { Oid(last'.arg[ParentFk(kind)].v) }
                 \/ /\ result'.t # "doc"
                    /\ HoldersOf(store', last'.ds, kind, last'.id)
                          = HoldersOf(store, last'.ds, kind, last'.id) ]_vars

\* The same for the kinds whose update overwrites the child in place.
C30_InPlaceMovedOrKept ==
    [][ \A kind \in EmbeddedKinds \ { OBSERVABLE_INFORMATION } :
              (/\ NamesParent(last', kind)
               /\ StoredChild(store, last'.ds, kind, last'.id)
               /\ ~SameParent(store, last'.ds, kind, last'.id, last'.arg)) =>
                 /\ result'.t # "doc"
                 /\ store' = store ]_vars

====
